---- MODULE Spec2Model ----
(***************************************************************************)
(* zarchive-rs: the archive reader (src/src/reader.rs), a facade over the  *)
(* ZArchive engine that guards every engine call with one RwLock; pack     *)
(* (src/src/writer.rs); and the RefCell reader of src/src/lib.rs.          *)
(*                                                                         *)
(* A state is one open archive shared by the threads of Threads, and the   *)
(* host's file system as pack sees it.  Every thread runs one public       *)
(* operation (its request) to its end.  An engine call takes two steps,    *)
(* its entry and its return, so that the calls of different threads can be *)
(* seen to overlap or not.                                                 *)
(***************************************************************************)
EXTENDS Integers, Sequences, FiniteSets, TLC

\* ------------------------------------------------------------------ bounds
NThreads == 2
MaxOff == 3
MaxLen == 3
\* The nested process_dir_entry calls a thread's call stack has room for.
MaxStack == 7
\* The calls of next a caller makes after the first end of the iteration.
MaxAgain == 2

Threads == 1..NThreads

\* ------------------------------------------------- node handles, fixtures
\* 0xFFFFFFFF, every bit of the u32 set; written as the same 32 bits read as a
\* signed integer, the widest integer the model checker has.
ZARCHIVE_INVALID_NODE == -1

\* The container: a table of nodes, a node's handle being its index.  Node 1,
\* when there is one, is the root directory.  An entry whose link is not 0
\* is a directory entry that resolves to the node link instead of a node of
\* its own: a well-formed container has none.
Node(name, isFile, parent, data) ==
    [name |-> name, isFile |-> isFile, parent |-> parent, data |-> data, link |-> 0]

FullTree ==
    << Node("",  FALSE, 0, <<>>),
       Node("a", TRUE,  1, <<11, 12, 13>>),
       Node("d", FALSE, 1, <<>>),
       Node("b", TRUE,  3, <<21>>),
       Node("f", TRUE,  1, <<31, 32>>) >>

\* A container whose file tree holds no node at all: its root does not resolve.
EmptyTree == << >>

Archives == {FullTree, EmptyTree}

\* A container three directories deep, with two directories of one name, a
\* directory listed before the files beside it and an empty directory.
DeepTree ==
    << Node("",  FALSE, 0, <<>>),
       Node("d", FALSE, 1, <<>>),
       Node("a", TRUE,  1, <<11>>),
       Node("d", FALSE, 2, <<>>),
       Node("b", TRUE,  2, <<21, 22>>),
       Node("a", TRUE,  4, <<41>>),
       Node("e", FALSE, 1, <<>>),
       Node("f", TRUE,  1, <<>>) >>

\* A malformed container: the entry "up" of directory "d" resolves to "d"
\* itself, so that "d" is reachable from itself.
LoopTree ==
    << Node("",  FALSE, 0, <<>>),
       Node("d", FALSE, 1, <<>>),
       Node("b", TRUE,  2, <<21>>),
       [Node("up", FALSE, 2, <<>>) EXCEPT !.link = 2] >>

\* A malformed container: the entry "g" is listed as a file but resolves to
\* the directory "d".
BrokenTree ==
    << Node("",  FALSE, 0, <<>>),
       Node("a", TRUE,  1, <<11>>),
       Node("d", FALSE, 1, <<>>),
       [Node("g", TRUE, 1, <<>>) EXCEPT !.link = 3],
       Node("f", TRUE,  1, <<31>>),
       Node("b", TRUE,  3, <<21, 22>>) >>

\* A container six directories deep, with a file in the fifth directory and
\* one in the sixth.
ChainTree ==
    << Node("",  FALSE, 0, <<>>),
       Node("d", FALSE, 1, <<>>),
       Node("d", FALSE, 2, <<>>),
       Node("d", FALSE, 3, <<>>),
       Node("d", FALSE, 4, <<>>),
       Node("d", FALSE, 5, <<>>),
       Node("d", FALSE, 6, <<>>),
       Node("a", TRUE,  7, <<71>>),
       Node("b", TRUE,  6, <<61>>) >>

WalkTrees == {DeepTree, LoopTree, BrokenTree, ChainTree}

\* The capacity of ArrayVec<[&str; 5]>, which holds the names of an entry's
\* parent directories.
ParentCap == 5

\* A path string is the sequence of its names and separators: "d/b" is
\* <<"d", "/", "b">> and the empty string is << >>.  NonUtf8 stands for a path
\* to_str() rejects.
NonUtf8 == <<"\\xFF">>
Paths == { <<>>, <<"a">>, <<"d">>, <<"d", "/", "b">>, <<"f">>, <<"x">>, NonUtf8 }
FilePaths == { <<"a">>, <<"d", "/", "b">>, <<"f">> }

IsUtf8(p) == p # NonUtf8

Min(a, b) == IF a <= b THEN a ELSE b

\* ------------------------------------------------------------ the engine
\* The names from the root to node i.
RECURSIVE PathOf(_, _)
PathOf(tree, i) ==
    IF tree[i].parent = 0 THEN << >>
    ELSE Append(PathOf(tree, tree[i].parent), tree[i].name)

IsNode(tree, h) == h \in 1..Len(tree)

\* The names of a path string, its separators dropped.
IsName(c) == c # "/"
Components(path) == SelectSeq(path, IsName)

\* The node an entry stands for.
Target(tree, i) == IF tree[i].link = 0 THEN i ELSE tree[i].link

\* The node reached from directory h by the names of comps, one entry a name.
RECURSIVE Resolve(_, _, _)
Resolve(tree, h, comps) ==
    IF comps = << >> THEN h
    ELSE LET hits == { i \in 1..Len(tree) :
                         tree[i].parent = h /\ tree[i].name = Head(comps) }
         IN  IF tree[h].isFile \/ hits = {} THEN ZARCHIVE_INVALID_NODE
             ELSE Resolve(tree, Target(tree, CHOOSE i \in hits : TRUE), Tail(comps))

\* LookUp(path, allowFile, allowDirectory): the node at path if its kind is
\* allowed, the invalid sentinel otherwise.
EngLookUp(tree, path, allowFile, allowDirectory) ==
    LET h == IF tree = << >> THEN ZARCHIVE_INVALID_NODE
             ELSE Resolve(tree, 1, Components(path))
    IN  IF h = ZARCHIVE_INVALID_NODE THEN ZARCHIVE_INVALID_NODE
        ELSE IF tree[h].isFile
        THEN (IF allowFile THEN h ELSE ZARCHIVE_INVALID_NODE)
        ELSE (IF allowDirectory THEN h ELSE ZARCHIVE_INVALID_NODE)

EngIsFile(tree, h) == IsNode(tree, h) /\ tree[h].isFile

EngIsDirectory(tree, h) == IsNode(tree, h) /\ ~tree[h].isFile

\* The entries of a directory, in index order.
RECURSIVE ChildrenFrom(_, _, _)
ChildrenFrom(tree, h, i) ==
    IF i > Len(tree) THEN << >>
    ELSE IF tree[i].parent = h THEN <<i>> \o ChildrenFrom(tree, h, i + 1)
    ELSE ChildrenFrom(tree, h, i + 1)

Children(tree, h) == IF EngIsDirectory(tree, h) THEN ChildrenFrom(tree, h, 1) ELSE << >>

EngGetDirEntryCount(tree, h) == Len(Children(tree, h))

\* GetDirEntry(handle, index, dirEntry): whether there is an entry at index,
\* and the entry written to dirEntry when there is.
EngGetDirEntry(tree, h, index) ==
    IF index < Len(Children(tree, h))
    THEN LET c == Children(tree, h)[index + 1]
         IN  [found |-> TRUE,
              entry |-> [name |-> tree[c].name, isFile |-> tree[c].isFile,
                         isDirectory |-> ~tree[c].isFile,
                         size |-> Len(tree[c].data)]]
    ELSE [found |-> FALSE,
          entry |-> [name |-> "", isFile |-> FALSE, isDirectory |-> FALSE, size |-> 0]]

EngGetFileSize(tree, h) == IF EngIsFile(tree, h) THEN Len(tree[h].data) ELSE 0

\* ReadFromFile(handle, offset, length): the bytes the engine writes to the
\* buffer; their number is the count it returns.
EngReadFromFile(tree, h, offset, length) ==
    IF EngIsFile(tree, h) /\ offset < Len(tree[h].data)
    THEN SubSeq(tree[h].data, offset + 1,
                offset + Min(length, Len(tree[h].data) - offset))
    ELSE << >>

\* ----------------------------------------------------- the engine's Pack
\* A directory on the host is the set of its files and of its empty
\* directories, each with the names of its path below the directory.
DiskFile(path, bytes) == [path |-> path, isFile |-> TRUE, bytes |-> bytes]
DiskDir(path) == [path |-> path, isFile |-> FALSE, bytes |-> << >>]

\* The order Pack writes names in.
Names == <<"a", "b", "d", "e", "f", "g", "up">>
Rank(n) == CHOOSE i \in 1..Len(Names) : Names[i] = n

\* Path p is written before path q: a directory before what it holds, the
\* entries of one directory by name.
Before(p, q) ==
    IF Len(p) # Len(q) THEN Len(p) < Len(q)
    ELSE \E i \in 1..Len(p) :
            /\ \A j \in 1..(i - 1) : p[j] = q[j]
            /\ Rank(p[i]) < Rank(q[i])

RECURSIVE SortPaths(_)
SortPaths(S) ==
    IF S = {} THEN << >>
    ELSE LET m == CHOOSE x \in S : \A y \in S \ {x} : Before(x, y)
         IN  <<m>> \o SortPaths(S \ {m})

\* Every path of a directory on the host: its files, its empty directories
\* and the directories above them.
DiskPaths(disk) ==
    { f.path : f \in disk }
    \cup UNION { { SubSeq(f.path, 1, k) : k \in 1..(Len(f.path) - 1) } : f \in disk }

\* Pack(inputPath, outputPath): the container written for the directory.
EngPack(disk) ==
    LET ps == SortPaths(DiskPaths(disk))
        at(path) == CHOOSE i \in 1..Len(ps) : ps[i] = path
        node(path) ==
            LET fs == { f \in disk : f.path = path /\ f.isFile }
            IN  Node(path[Len(path)], fs # {},
                     IF Len(path) = 1 THEN 1
                     ELSE 1 + at(SubSeq(path, 1, Len(path) - 1)),
                     IF fs = {} THEN << >> ELSE (CHOOSE f \in fs : TRUE).bytes)
    IN  << Node("", FALSE, 0, << >>) >> \o [i \in 1..Len(ps) |-> node(ps[i])]

\* The directories given to pack: any of these files, with or without an
\* empty directory beside them.
DiskFiles ==
    { DiskFile(<<"b">>, <<1>>), DiskFile(<<"a">>, <<>>), DiskFile(<<"d", "b">>, <<2, 3>>),
      DiskFile(<<"d", "a">>, <<4>>), DiskFile(<<"d", "d", "a">>, <<5>>) }
Disks == { fs \cup ds : fs \in SUBSET DiskFiles, ds \in { {}, {DiskDir(<<"e">>)} } }

\* The host's file system as pack sees it: what is at the input path, at the
\* output path and at the output's parent ("none": the output path has no
\* parent), whether to_str() accepts the two paths, the content of the input
\* directory, the container at the output path, whether that container has
\* been opened, and the list of the archive the input was extracted from.
Host(input, output, parent, inUtf8, outUtf8, disk) ==
    [input |-> input, output |-> output, parent |-> parent, inUtf8 |-> inUtf8,
     outUtf8 |-> outUtf8, disk |-> disk, archive |-> << >>, opened |-> FALSE,
     original |-> << >>]

NoHost == Host("absent", "absent", "absent", TRUE, TRUE, {})

Hosts ==
    { Host(i, o[1], o[2], a, b, {DiskFile(<<"a">>, <<1>>)}) :
        i \in {"absent", "file", "dir"},
        o \in { <<"absent", "none">>, <<"absent", "absent">>, <<"absent", "file">>,
                <<"absent", "dir">>, <<"file", "dir">>, <<"dir", "dir">> },
        a \in BOOLEAN, b \in BOOLEAN }
    \cup { Host("dir", o, "dir", TRUE, TRUE, d) : o \in {"absent", "file"}, d \in Disks }

PackFaults == { "none", "remove_file", "create_dir_all", "Pack" }

\* ---------------------------------------------------------------- requests
\* DirEntry::full_path: the names of the parent directories and the entry's
\* own name, each two joined by "/"; names is parent followed by the name.
RECURSIVE DirEntry_full_path(_)
DirEntry_full_path(names) ==
    IF Len(names) <= 1 THEN names
    ELSE DirEntry_full_path(SubSeq(names, 1, Len(names) - 1))
            \o <<"/", names[Len(names)]>>

\* flag is the one boolean an operation takes beside its path: whether the
\* destination of extract_file is an existing directory, or what is_dir() says
\* of the DirEntry given to iter_dir and count_dir_entries (path then being
\* the entry's full_path()).
Request(op, path, offset, length, flag) ==
    [op |-> op, path |-> path, offset |-> offset, length |-> length, flag |-> flag]

\* The DirEntry values an iteration of FullTree hands out, as <<full path, is_dir>>.
Entries ==
    { <<DirEntry_full_path(PathOf(FullTree, i)), ~FullTree[i].isFile>> :
        i \in 2..Len(FullTree) }

\* What one caller may ask of an archive.
SeqRequests ==
    { Request("read_from_file", p, o, l, FALSE) :
        p \in Paths, o \in 0..MaxOff, l \in 0..MaxLen }
    \cup { Request(op, p, 0, 0, FALSE) : op \in {"read_file", "file_size"}, p \in Paths }
    \cup { Request("extract_file", p, 0, 0, b) : p \in Paths, b \in BOOLEAN }
    \cup { Request(op, << >>, 0, 0, FALSE) : op \in {"get_files", "iter"} }
    \cup { Request("extract", << >>, 0, 0, b) : b \in BOOLEAN }
    \cup { Request(op, e[1], 0, 0, e[2]) :
             op \in {"iter_dir", "count_dir_entries"}, e \in Entries }

\* What the threads of a concurrent run ask: reads of the files (one of them
\* past the end of its file), extractions of a file, of a directory and of
\* nothing, and walks of the tree.
ConcRequests ==
    { Request("read_from_file", p, 0, 1, FALSE) : p \in FilePaths }
    \cup { Request("read_from_file", <<"a">>, 1, 2, FALSE),
           Request("read_from_file", <<"f">>, 1, 2, FALSE),
           Request("read_file", <<"a">>, 0, 0, FALSE),
           Request("extract_file", <<"f">>, 0, 0, FALSE),
           Request("extract_file", <<"d">>, 0, 0, FALSE),
           Request("extract_file", <<"x">>, 0, 0, FALSE),
           Request("get_files", << >>, 0, 0, FALSE),
           Request("iter", << >>, 0, 0, FALSE),
           Request("count_dir_entries", <<"d">>, 0, 0, TRUE) }

\* What the threads sharing the RefCell reader of lib.rs ask: the first byte
\* of a file each.
LibOp == "lib_read_from_file"
LibRequests == { Request(LibOp, p, 0, 1, FALSE) : p \in FilePaths \cup {NonUtf8} }

\* One request of every operation of the reader, and a read past the end of
\* a file.
FairRequests ==
    { Request("read_file", <<"a">>, 0, 0, FALSE),
      Request("read_from_file", <<"f">>, 0, 1, FALSE),
      Request("read_from_file", <<"f">>, 1, 2, FALSE),
      Request("file_size", <<"a">>, 0, 0, FALSE),
      Request("extract_file", <<"f">>, 0, 0, FALSE),
      Request("get_files", << >>, 0, 0, FALSE),
      Request("iter", << >>, 0, 0, FALSE),
      Request("iter_dir", <<"d">>, 0, 0, TRUE),
      Request("count_dir_entries", <<"d">>, 0, 0, TRUE) }

\* What the caller of a walk asks.
WalkRequests ==
    { Request("get_files", << >>, 0, 0, FALSE), Request("extract", << >>, 0, 0, FALSE) }
    \cup { Request("iter", << >>, 0, n, FALSE) : n \in 0..MaxAgain }
    \cup { Request("iter_dir", DirEntry_full_path(PathOf(DeepTree, i)), 0, n, TRUE) :
             i \in { j \in 2..Len(DeepTree) : ~DeepTree[j].isFile }, n \in 0..MaxAgain }

\* The ways a container or the host can fail: the named engine call throws,
\* ReadFromFile writes one byte too few ("short"), the named call of the host
\* file system fails, or nothing fails.
Faults == { "none", "LookUp", "GetFileSize", "ReadFromFile", "short",
            "IsFile", "GetDirEntryCount", "GetDirEntry",
            "create_dir_all", "File::create", "set_len", "write_all" }

\* ------------------------------------------------------------------- state
VARIABLES
    tree,       \* the open container
    fault,      \* how the container fails
    req,        \* req[t]: the operation thread t runs
    pc,         \* pc[t]: where thread t is in its operation
    handle,     \* handle[t]: the node handle LookUp returned to t
    size,       \* size[t]: the size GetFileSize returned to t
    result,     \* result[t]: what t's operation returned
    inCall,     \* inCall[t]: the engine call t is inside
    cursor,     \* the engine's internal traversal state
    writer,     \* the thread holding the RwLock's write guard, or 0
    readers,    \* the threads holding a read guard
    poisoned,   \* a thread panicked while holding the write guard
    out,        \* out[t]: the destination file extract_file writes for t
    stack,      \* stack[t]: the directories t is inside, innermost last
    files,      \* files[t]: the paths get_files has collected for t
    items,      \* items[t]: the entries t's iterator has yielded
    dir_entry,  \* dir_entry[t]: the DirEntry the engine last filled for t
    nones,      \* nones[t]: the calls of next that returned None to t
    batch,      \* batch[t]: the extract call t is in and the files it has written
    host        \* the host's file system as pack sees it

env == << tree, fault, req >>
conf == << env, nones, batch, host >>
walk == << stack, files, items, dir_entry >>
vars == << tree, fault, req, pc, handle, size, result, inCall, cursor,
           writer, readers, poisoned, out, stack, files, items, dir_entry, nones,
           batch, host >>

Call(fn, path, allowFile, allowDirectory, h, offset, length) ==
    [fn |-> fn, path |-> path, allowFile |-> allowFile,
     allowDirectory |-> allowDirectory, h |-> h, offset |-> offset, length |-> length]

NoCall == Call("none", << >>, FALSE, FALSE, 0, 0, 0)

\* The values an operation returns, and the panic that ends it instead.
None == [kind |-> "None", val |-> << >>, num |-> 0, err |-> ""]
Some(bytes) == [kind |-> "Some", val |-> bytes, num |-> 0, err |-> ""]
SomeNum(n) == [kind |-> "Some", val |-> << >>, num |-> n, err |-> ""]
Panic(why) == [kind |-> "Panic", val |-> << >>, num |-> 0, err |-> why]
Ok == [kind |-> "Ok", val |-> << >>, num |-> 0, err |-> ""]
OkNum(n) == [kind |-> "Ok", val |-> << >>, num |-> n, err |-> ""]
Err(e) == [kind |-> "Err", val |-> << >>, num |-> 0, err |-> e]
Pending == [kind |-> "Pending", val |-> << >>, num |-> 0, err |-> ""]

\* The host file a thread extracts to: absent until File::create makes it.
NoFile == [exists |-> FALSE, path |-> << >>, bytes |-> << >>]
Zeros(n) == [i \in 1..n |-> 0]

\* ffi::DirEntry::default()
DefaultEntry == [name |-> "", isFile |-> FALSE, isDirectory |-> FALSE, size |-> 0]

\* No extract call: on says whether t is inside extract, next is the index of
\* the file extract is at and written are the files it has written so far.
NoBatch == [on |-> FALSE, next |-> 0, written |-> << >>]

InitThreads ==
    /\ handle = [t \in Threads |-> 0]
    /\ size = [t \in Threads |-> 0]
    /\ result = [t \in Threads |-> Pending]
    /\ inCall = [t \in Threads |-> NoCall]
    /\ cursor = NoCall
    /\ writer = 0
    /\ readers = {}
    /\ poisoned = FALSE
    /\ out = [t \in Threads |-> NoFile]
    /\ stack = [t \in Threads |-> << >>]
    /\ files = [t \in Threads |-> << >>]
    /\ items = [t \in Threads |-> << >>]
    /\ dir_entry = [t \in Threads |-> DefaultEntry]
    /\ nones = [t \in Threads |-> 0]
    /\ batch = [t \in Threads |-> NoBatch]

\* One caller: any container, any failure, any request.
SeqInit ==
    /\ host = NoHost
    /\ tree \in Archives
    /\ fault \in Faults
    /\ \E r \in SeqRequests : req = [t \in Threads |-> r]
    /\ pc = [t \in Threads |-> IF t = 1 THEN "start" ELSE "off"]
    /\ InitThreads

\* NThreads callers sharing one sound container.
ConcInit ==
    /\ host = NoHost
    /\ tree = FullTree
    /\ fault = "none"
    /\ req \in [Threads -> ConcRequests]
    /\ pc = [t \in Threads |-> "start"]
    /\ InitThreads

\* One caller walking a deep or a malformed container.
WalkInit ==
    /\ host = NoHost
    /\ tree \in WalkTrees
    /\ fault = "none"
    /\ \E r \in WalkRequests : req = [t \in Threads |-> r]
    /\ pc = [t \in Threads |-> IF t = 1 THEN "start" ELSE "off"]
    /\ InitThreads

\* NThreads callers sharing one sound container: two of them with any
\* operation each, the others competing for the lock with a read.
FairInit ==
    /\ host = NoHost
    /\ tree = FullTree
    /\ fault = "none"
    /\ req \in { r \in [Threads -> FairRequests] :
                   \A t \in Threads \ {1, 2} :
                       r[t] = Request("read_from_file", <<"f">>, 0, 1, FALSE) }
    /\ pc = [t \in Threads |-> "start"]
    /\ InitThreads

\* One caller of pack: any state of the host, any failure.
PackInit ==
    /\ host \in Hosts
    /\ tree = EmptyTree
    /\ fault \in PackFaults
    /\ req = [t \in Threads |-> Request("pack", << >>, 0, 0, FALSE)]
    /\ pc = [t \in Threads |-> IF t = 1 THEN "start" ELSE "off"]
    /\ InitThreads

\* NThreads callers sharing the RefCell reader of lib.rs with no lock around it.
LibInit ==
    /\ host = NoHost
    /\ tree = FullTree
    /\ fault \in {"none", "short"}
    /\ req \in [Threads -> LibRequests]
    /\ pc = [t \in Threads |-> "start"]
    /\ InitThreads

Init == SeqInit \/ ConcInit \/ WalkInit \/ PackInit

\* ---------------------------------------------------------------- the lock
\* RwLock::write() returns once no guard is held; RwLock::read() once no
\* write guard is held.
CanWrite == writer = 0 /\ readers = {}
CanRead == writer = 0

\* -------------------------------------------------- steps of an operation
Goto(t, label) == pc' = [pc EXCEPT ![t] = label]

\* Thread t enters an engine call that takes the engine by Pin<&mut>: the
\* call moves the engine's traversal state.
Enter(t, c, label) ==
    /\ inCall' = [inCall EXCEPT ![t] = c]
    /\ cursor' = c
    /\ Goto(t, label)

\* Thread t enters an engine call that takes the engine by shared reference:
\* the call reads the file tree only.
EnterShared(t, c, label) ==
    /\ inCall' = [inCall EXCEPT ![t] = c]
    /\ Goto(t, label)

\* Thread t's engine call has returned and t goes on to label.
Leave(t, label) ==
    /\ inCall' = [inCall EXCEPT ![t] = NoCall]
    /\ Goto(t, label)

\* Thread t drops the temporary guard it made the call under.
Release(t) ==
    /\ writer' = IF writer = t THEN 0 ELSE writer
    /\ readers' = readers \ {t}

\* Thread t's operation returns r, dropping every guard it holds: to extract
\* when extract called it, to t's caller otherwise; a panic unwinds to the
\* caller in either case.
Return(t, r) ==
    /\ result' = [result EXCEPT ![t] = r]
    /\ inCall' = [inCall EXCEPT ![t] = NoCall]
    /\ writer' = IF writer = t THEN 0 ELSE writer
    /\ readers' = readers \ {t}
    /\ poisoned' = (poisoned \/ (r.kind = "Panic" /\ writer = t /\ req[t].op # LibOp))
    /\ Goto(t, IF batch[t].on /\ r.kind # "Panic" THEN "returned" ELSE "done")

\* Thread t panics once the temporary guard of its last call is dropped: the
\* lock is not poisoned.
Abort(t, why) ==
    /\ result' = [result EXCEPT ![t] = Panic(why)]
    /\ inCall' = [inCall EXCEPT ![t] = NoCall]
    /\ Release(t)
    /\ Goto(t, "done")
    /\ UNCHANGED poisoned

\* What the engine answers to the call it is working on.
Throws(fn) == fault = fn
LookUpAnswer == EngLookUp(tree, cursor.path, cursor.allowFile, cursor.allowDirectory)
GetFileSizeAnswer == EngGetFileSize(tree, cursor.h)
ReadFromFileAnswer ==
    LET bytes == EngReadFromFile(tree, cursor.h, cursor.offset, cursor.length)
    IN  IF fault = "short" /\ Len(bytes) > 0
        THEN SubSeq(bytes, 1, Len(bytes) - 1)
        ELSE bytes

\* The calls by shared reference answer from their own arguments.
IsFileAnswer(t) == EngIsFile(tree, inCall[t].h)
GetDirEntryCountAnswer(t) == EngGetDirEntryCount(tree, inCall[t].h)
GetDirEntryAnswer(t) == EngGetDirEntry(tree, inCall[t].h, inCall[t].offset)

\* ----------------------------------------------------------- read_from_file
\* read_from_file_LookUp with no guard taken (the engine behind a handle that
\* keeps no thread out).
read_from_file_LookUp_unguarded(t) ==
    /\ pc[t] = "start" /\ req[t].op = "read_from_file"
    /\ IF ~IsUtf8(req[t].path)
       THEN /\ Return(t, None)
            /\ UNCHANGED << conf, walk, out, handle, size, cursor >>
       ELSE /\ Enter(t, Call("LookUp", req[t].path, TRUE, FALSE, 0, 0, 0), "LookUp")
            /\ UNCHANGED << conf, walk, out, handle, size, result, writer, readers,
                            poisoned >>

read_from_file_LookUp(t) ==
    /\ pc[t] = "start" /\ req[t].op = "read_from_file"
    /\ CanWrite
    /\ IF poisoned
       THEN /\ Return(t, Panic("poisoned"))
            /\ UNCHANGED << conf, walk, out, handle, size, cursor >>
       ELSE IF ~IsUtf8(req[t].path)
       THEN /\ Return(t, None)
            /\ UNCHANGED << conf, walk, out, handle, size, cursor >>
       ELSE /\ writer' = t
            /\ Enter(t, Call("LookUp", req[t].path, TRUE, FALSE, 0, 0, 0), "LookUp")
            /\ UNCHANGED << conf, walk, out, handle, size, result, readers, poisoned >>

\* read_from_file_LookUp_ret with the write guard a temporary of the LookUp
\* statement, dropped when LookUp returns.
read_from_file_LookUp_ret_release(t) ==
    /\ pc[t] = "LookUp" /\ req[t].op = "read_from_file"
    /\ IF Throws("LookUp") \/ LookUpAnswer = ZARCHIVE_INVALID_NODE
       THEN /\ Return(t, None)
            /\ UNCHANGED << conf, walk, out, handle, size, cursor >>
       ELSE /\ handle' = [handle EXCEPT ![t] = LookUpAnswer]
            /\ writer' = 0
            /\ Leave(t, "resolved")
            /\ UNCHANGED << conf, walk, out, size, result, cursor, readers, poisoned >>

read_from_file_LookUp_ret(t) ==
    /\ pc[t] = "LookUp" /\ req[t].op = "read_from_file"
    /\ IF Throws("LookUp") \/ LookUpAnswer = ZARCHIVE_INVALID_NODE
       THEN /\ Return(t, None)
            /\ UNCHANGED << conf, walk, out, handle, size, cursor >>
       ELSE /\ handle' = [handle EXCEPT ![t] = LookUpAnswer]
            /\ Leave(t, "resolved")
            /\ UNCHANGED << conf, walk, out, size, result, cursor, writer, readers, poisoned >>

read_from_file_GetFileSize(t) ==
    /\ pc[t] = "resolved" /\ req[t].op = "read_from_file"
    /\ Enter(t, Call("GetFileSize", << >>, FALSE, FALSE, handle[t], 0, 0), "GetFileSize")
    /\ UNCHANGED << conf, walk, out, handle, size, result, writer, readers, poisoned >>

read_from_file_GetFileSize_ret(t) ==
    /\ pc[t] = "GetFileSize" /\ req[t].op = "read_from_file"
    /\ IF Throws("GetFileSize") \/ req[t].length > GetFileSizeAnswer
       THEN /\ Return(t, None)
            /\ UNCHANGED << conf, walk, out, handle, size, cursor >>
       ELSE /\ size' = [size EXCEPT ![t] = GetFileSizeAnswer]
            /\ Leave(t, "sized")
            /\ UNCHANGED << conf, walk, out, handle, result, cursor, writer, readers, poisoned >>

\* read_from_file_ReadFromFile reading from the start of the file, the offset
\* forgotten.
read_from_file_ReadFromFile_at0(t) ==
    /\ pc[t] = "sized" /\ req[t].op = "read_from_file"
    /\ Enter(t, Call("ReadFromFile", << >>, FALSE, FALSE, handle[t], 0, req[t].length),
             "ReadFromFile")
    /\ UNCHANGED << conf, walk, out, handle, size, result, writer, readers, poisoned >>

read_from_file_ReadFromFile(t) ==
    /\ pc[t] = "sized" /\ req[t].op = "read_from_file"
    /\ Enter(t, Call("ReadFromFile", << >>, FALSE, FALSE, handle[t],
                     req[t].offset, req[t].length), "ReadFromFile")
    /\ UNCHANGED << conf, walk, out, handle, size, result, writer, readers, poisoned >>

read_from_file_ReadFromFile_ret(t) ==
    /\ pc[t] = "ReadFromFile" /\ req[t].op = "read_from_file"
    /\ IF Throws("ReadFromFile")
       THEN Return(t, Panic("unwrap"))
       ELSE IF Len(ReadFromFileAnswer) # req[t].length
       THEN Return(t, Panic("unexpected number of bytes"))
       ELSE Return(t, Some(ReadFromFileAnswer))
    /\ UNCHANGED << conf, walk, out, handle, size, cursor >>

\* ---------------------------------------------------------------- read_file
read_file_LookUp(t) ==
    /\ pc[t] = "start" /\ req[t].op = "read_file"
    /\ CanWrite
    /\ IF poisoned
       THEN /\ Return(t, Panic("poisoned"))
            /\ UNCHANGED << conf, walk, out, handle, size, cursor >>
       ELSE IF ~IsUtf8(req[t].path)
       THEN /\ Return(t, None)
            /\ UNCHANGED << conf, walk, out, handle, size, cursor >>
       ELSE /\ writer' = t
            /\ Enter(t, Call("LookUp", req[t].path, TRUE, FALSE, 0, 0, 0), "LookUp")
            /\ UNCHANGED << conf, walk, out, handle, size, result, readers, poisoned >>

\* read_file_LookUp_ret with the write guard a temporary of the LookUp
\* statement, dropped when LookUp returns.
read_file_LookUp_ret_release(t) ==
    /\ pc[t] = "LookUp" /\ req[t].op = "read_file"
    /\ IF Throws("LookUp") \/ LookUpAnswer = ZARCHIVE_INVALID_NODE
       THEN /\ Return(t, None)
            /\ UNCHANGED << conf, walk, out, handle, size, cursor >>
       ELSE /\ handle' = [handle EXCEPT ![t] = LookUpAnswer]
            /\ writer' = 0
            /\ Leave(t, "resolved")
            /\ UNCHANGED << conf, walk, out, size, result, cursor, readers, poisoned >>

read_file_LookUp_ret(t) ==
    /\ pc[t] = "LookUp" /\ req[t].op = "read_file"
    /\ IF Throws("LookUp") \/ LookUpAnswer = ZARCHIVE_INVALID_NODE
       THEN /\ Return(t, None)
            /\ UNCHANGED << conf, walk, out, handle, size, cursor >>
       ELSE /\ handle' = [handle EXCEPT ![t] = LookUpAnswer]
            /\ Leave(t, "resolved")
            /\ UNCHANGED << conf, walk, out, size, result, cursor, writer, readers, poisoned >>

read_file_GetFileSize(t) ==
    /\ pc[t] = "resolved" /\ req[t].op = "read_file"
    /\ Enter(t, Call("GetFileSize", << >>, FALSE, FALSE, handle[t], 0, 0), "GetFileSize")
    /\ UNCHANGED << conf, walk, out, handle, size, result, writer, readers, poisoned >>

read_file_GetFileSize_ret(t) ==
    /\ pc[t] = "GetFileSize" /\ req[t].op = "read_file"
    /\ IF Throws("GetFileSize")
       THEN /\ Return(t, None)
            /\ UNCHANGED << conf, walk, out, handle, size, cursor >>
       ELSE /\ size' = [size EXCEPT ![t] = GetFileSizeAnswer]
            /\ Leave(t, "sized")
            /\ UNCHANGED << conf, walk, out, handle, result, cursor, writer, readers, poisoned >>

read_file_ReadFromFile(t) ==
    /\ pc[t] = "sized" /\ req[t].op = "read_file"
    /\ Enter(t, Call("ReadFromFile", << >>, FALSE, FALSE, handle[t], 0, size[t]),
             "ReadFromFile")
    /\ UNCHANGED << conf, walk, out, handle, size, result, writer, readers, poisoned >>

\* read_file_ReadFromFile_ret without the comparison of written and size.
read_file_ReadFromFile_ret_unchecked(t) ==
    /\ pc[t] = "ReadFromFile" /\ req[t].op = "read_file"
    /\ IF Throws("ReadFromFile")
       THEN Return(t, Panic("unwrap"))
       ELSE Return(t, Some(ReadFromFileAnswer))
    /\ UNCHANGED << conf, walk, out, handle, size, cursor >>

read_file_ReadFromFile_ret(t) ==
    /\ pc[t] = "ReadFromFile" /\ req[t].op = "read_file"
    /\ IF Throws("ReadFromFile")
       THEN Return(t, Panic("unwrap"))
       ELSE IF Len(ReadFromFileAnswer) # size[t]
       THEN Return(t, Panic("unexpected number of bytes"))
       ELSE Return(t, Some(ReadFromFileAnswer))
    /\ UNCHANGED << conf, walk, out, handle, size, cursor >>

\* ---------------------------------------------------------------- file_size
file_size_LookUp(t) ==
    /\ pc[t] = "start" /\ req[t].op = "file_size"
    /\ IF ~IsUtf8(req[t].path)
       THEN /\ Return(t, None)
            /\ UNCHANGED << conf, walk, out, handle, size, cursor >>
       ELSE /\ CanWrite
            /\ IF poisoned
               THEN /\ Return(t, Panic("poisoned"))
                    /\ UNCHANGED << conf, walk, out, handle, size, cursor >>
               ELSE /\ writer' = t
                    /\ Enter(t, Call("LookUp", req[t].path, TRUE, FALSE, 0, 0, 0), "LookUp")
                    /\ UNCHANGED << conf, walk, out, handle, size, result, readers, poisoned >>

file_size_LookUp_ret(t) ==
    /\ pc[t] = "LookUp" /\ req[t].op = "file_size"
    /\ IF Throws("LookUp")
       THEN /\ Return(t, None)
            /\ UNCHANGED << conf, walk, out, handle, size, cursor >>
       ELSE /\ handle' = [handle EXCEPT ![t] = LookUpAnswer]
            /\ Leave(t, "resolved")
            /\ UNCHANGED << conf, walk, out, size, result, cursor, writer, readers, poisoned >>

file_size_GetFileSize(t) ==
    /\ pc[t] = "resolved" /\ req[t].op = "file_size"
    /\ Enter(t, Call("GetFileSize", << >>, FALSE, FALSE, handle[t], 0, 0), "GetFileSize")
    /\ UNCHANGED << conf, walk, out, handle, size, result, writer, readers, poisoned >>

file_size_GetFileSize_ret(t) ==
    /\ pc[t] = "GetFileSize" /\ req[t].op = "file_size"
    /\ IF Throws("GetFileSize")
       THEN Return(t, None)
       ELSE Return(t, SomeNum(GetFileSizeAnswer))
    /\ UNCHANGED << conf, walk, out, handle, size, cursor >>

\* ------------------------------------------------------------- extract_file
\* The path extract_file writes to: dest joined with the file's path when dest
\* is an existing directory, dest itself otherwise.
DestPath(r) == IF r.flag THEN <<"dest", "/">> \o r.path ELSE <<"dest">>

extract_file_LookUp(t) ==
    /\ pc[t] = "start" /\ req[t].op = "extract_file"
    /\ IF ~IsUtf8(req[t].path)
       THEN /\ Return(t, Err("InvalidFilePath"))
            /\ UNCHANGED << conf, walk, out, handle, size, cursor >>
       ELSE IF fault = "create_dir_all"
       THEN /\ Return(t, Err("IOError"))
            /\ UNCHANGED << conf, walk, out, handle, size, cursor >>
       ELSE /\ CanWrite
            /\ IF poisoned
               THEN /\ Return(t, Panic("poisoned"))
                    /\ UNCHANGED << conf, walk, out, handle, size, cursor >>
               ELSE /\ writer' = t
                    /\ Enter(t, Call("LookUp", req[t].path, TRUE, FALSE, 0, 0, 0), "LookUp")
                    /\ UNCHANGED << conf, walk, out, handle, size, result, readers, poisoned >>

\* extract_file_LookUp_ret with the write guard of LookUp bound to a local
\* that lives on while the read guard for IsFile is asked for.
extract_file_LookUp_ret_held(t) ==
    /\ pc[t] = "LookUp" /\ req[t].op = "extract_file"
    /\ IF Throws("LookUp")
       THEN /\ Return(t, Err("Other"))
            /\ UNCHANGED << conf, walk, out, handle, size, cursor >>
       ELSE IF LookUpAnswer = ZARCHIVE_INVALID_NODE
       THEN /\ Return(t, Err("MissingFile"))
            /\ UNCHANGED << conf, walk, out, handle, size, cursor >>
       ELSE /\ handle' = [handle EXCEPT ![t] = LookUpAnswer]
            /\ Leave(t, "resolved")
            /\ UNCHANGED << conf, walk, out, size, result, cursor, writer, readers,
                            poisoned >>

extract_file_LookUp_ret(t) ==
    /\ pc[t] = "LookUp" /\ req[t].op = "extract_file"
    /\ IF Throws("LookUp")
       THEN /\ Return(t, Err("Other"))
            /\ UNCHANGED << conf, walk, out, handle, size, cursor >>
       ELSE IF LookUpAnswer = ZARCHIVE_INVALID_NODE
       THEN /\ Return(t, Err("MissingFile"))
            /\ UNCHANGED << conf, walk, out, handle, size, cursor >>
       ELSE /\ handle' = [handle EXCEPT ![t] = LookUpAnswer]
            /\ writer' = 0
            /\ Leave(t, "resolved")
            /\ UNCHANGED << conf, walk, out, size, result, cursor, readers, poisoned >>

extract_file_IsFile(t) ==
    /\ pc[t] = "resolved" /\ req[t].op = "extract_file"
    /\ CanRead
    /\ IF poisoned
       THEN /\ Return(t, Panic("poisoned"))
            /\ UNCHANGED << conf, walk, out, handle, size, cursor >>
       ELSE /\ readers' = readers \cup {t}
            /\ EnterShared(t, Call("IsFile", << >>, FALSE, FALSE, handle[t], 0, 0), "IsFile")
            /\ UNCHANGED << conf, walk, out, handle, size, result, cursor, writer, poisoned >>

extract_file_IsFile_ret(t) ==
    /\ pc[t] = "IsFile" /\ req[t].op = "extract_file"
    /\ IF Throws("IsFile")
       THEN /\ Return(t, Err("Other"))
            /\ UNCHANGED << conf, walk, out, handle, size, cursor >>
       ELSE IF ~IsFileAnswer(t)
       THEN /\ Return(t, Err("MissingFile"))
            /\ UNCHANGED << conf, walk, out, handle, size, cursor >>
       ELSE /\ readers' = readers \ {t}
            /\ Leave(t, "checked")
            /\ UNCHANGED << conf, walk, out, handle, size, result, cursor, writer, poisoned >>

extract_file_GetFileSize(t) ==
    /\ pc[t] = "checked" /\ req[t].op = "extract_file"
    /\ CanWrite
    /\ IF poisoned
       THEN /\ Return(t, Panic("poisoned"))
            /\ UNCHANGED << conf, walk, out, handle, size, cursor >>
       ELSE /\ writer' = t
            /\ Enter(t, Call("GetFileSize", << >>, FALSE, FALSE, handle[t], 0, 0),
                     "GetFileSize")
            /\ UNCHANGED << conf, walk, out, handle, size, result, readers, poisoned >>

\* GetFileSize returns; the destination file is created and set to the size.
extract_file_GetFileSize_ret(t) ==
    /\ pc[t] = "GetFileSize" /\ req[t].op = "extract_file"
    /\ IF Throws("GetFileSize")
       THEN /\ Return(t, Err("Other"))
            /\ UNCHANGED << conf, walk, out, handle, size, cursor >>
       ELSE IF fault = "File::create"
       THEN /\ Return(t, Err("IOError"))
            /\ UNCHANGED << conf, walk, out, handle, size, cursor >>
       ELSE IF fault = "set_len"
       THEN /\ Return(t, Err("IOError"))
            /\ out' = [out EXCEPT ![t] =
                          [exists |-> TRUE, path |-> DestPath(req[t]), bytes |-> << >>]]
            /\ UNCHANGED << conf, walk, handle, size, cursor >>
       ELSE /\ size' = [size EXCEPT ![t] = GetFileSizeAnswer]
            /\ out' = [out EXCEPT ![t] =
                          [exists |-> TRUE, path |-> DestPath(req[t]),
                           bytes |-> Zeros(GetFileSizeAnswer)]]
            /\ Leave(t, "sized")
            /\ UNCHANGED << conf, walk, handle, result, cursor, writer, readers, poisoned >>

extract_file_ReadFromFile(t) ==
    /\ pc[t] = "sized" /\ req[t].op = "extract_file"
    /\ Enter(t, Call("ReadFromFile", << >>, FALSE, FALSE, handle[t], 0, size[t]),
             "ReadFromFile")
    /\ UNCHANGED << conf, walk, out, handle, size, result, writer, readers, poisoned >>

extract_file_ReadFromFile_ret(t) ==
    /\ pc[t] = "ReadFromFile" /\ req[t].op = "extract_file"
    /\ IF Throws("ReadFromFile")
       THEN Return(t, Panic("unwrap")) /\ UNCHANGED out
       ELSE IF Len(ReadFromFileAnswer) # size[t]
       THEN Return(t, Panic("unexpected number of bytes")) /\ UNCHANGED out
       ELSE IF fault = "write_all"
       THEN Return(t, Err("IOError")) /\ UNCHANGED out
       ELSE /\ Return(t, Ok)
            /\ out' = [out EXCEPT ![t].bytes = ReadFromFileAnswer]
    /\ UNCHANGED << conf, walk, handle, size, cursor >>

\* ------------------------------------------- iter, iter_dir and the iterator
\* ArchiveDirIterator::new, and the frame of one process_dir_entry call: the
\* directory's handle, the path of the directory, its entry count once known
\* and the index of the next entry.
Frame(h, parent) == [h |-> h, parent |-> parent, count |-> 0, index |-> 0]

Top(stk) == stk[Len(stk)]
Pop(stk) == SubSeq(stk, 1, Len(stk) - 1)
SetTop(stk, f) == [stk EXCEPT ![Len(stk)] = f]

\* The DirEntry an iterator yields: the engine's entry and the parent path.
Item(entry, parent) ==
    [name |-> entry.name, isFile |-> entry.isFile, isDirectory |-> entry.isDirectory,
     size |-> entry.size, parent |-> parent]

\* full_path with the separator put before the name in every directory.
full_path_slash(parent, name) == parent \o <<"/", name>>

\* The full_path of process_dir_entry: the name alone in the root directory,
\* the parent's path, "/" and the name elsewhere.
full_path(parent, name) ==
    IF parent # << >> THEN parent \o <<"/", name>> ELSE <<name>>

iter_LookUp(t) ==
    /\ pc[t] = "start" /\ req[t].op = "iter"
    /\ CanWrite
    /\ IF poisoned
       THEN /\ Return(t, Panic("poisoned"))
            /\ UNCHANGED << conf, walk, out, handle, size, cursor >>
       ELSE /\ writer' = t
            /\ Enter(t, Call("LookUp", << >>, FALSE, TRUE, 0, 0, 0), "LookUp")
            /\ UNCHANGED << conf, walk, out, handle, size, result, readers, poisoned >>

iter_LookUp_ret(t) ==
    /\ pc[t] = "LookUp" /\ req[t].op = "iter"
    /\ IF Throws("LookUp")
       THEN /\ Return(t, Err("Other"))
            /\ UNCHANGED << conf, walk, out, handle, size, cursor >>
       ELSE IF LookUpAnswer = ZARCHIVE_INVALID_NODE
       THEN /\ Return(t, Err("MissingFile"))
            /\ UNCHANGED << conf, walk, out, handle, size, cursor >>
       ELSE /\ stack' = [stack EXCEPT ![t] = << Frame(LookUpAnswer, << >>) >>]
            /\ Release(t)
            /\ Leave(t, "next")
            /\ UNCHANGED << conf, files, items, dir_entry, out, handle, size, result,
                            cursor, poisoned >>

iter_dir_LookUp(t) ==
    /\ pc[t] = "start" /\ req[t].op = "iter_dir"
    /\ CanWrite
    /\ IF poisoned
       THEN /\ Return(t, Panic("poisoned"))
            /\ UNCHANGED << conf, walk, out, handle, size, cursor >>
       ELSE /\ writer' = t
            /\ Enter(t, Call("LookUp", req[t].path, FALSE, TRUE, 0, 0, 0), "LookUp")
            /\ UNCHANGED << conf, walk, out, handle, size, result, readers, poisoned >>

iter_dir_LookUp_ret(t) ==
    /\ pc[t] = "LookUp" /\ req[t].op = "iter_dir"
    /\ IF Throws("LookUp")
       THEN /\ Return(t, Err("Other"))
            /\ UNCHANGED << conf, walk, out, handle, size, cursor >>
       ELSE IF LookUpAnswer = ZARCHIVE_INVALID_NODE
       THEN /\ Return(t, Err("MissingFile"))
            /\ UNCHANGED << conf, walk, out, handle, size, cursor >>
       ELSE IF ~req[t].flag
       THEN /\ Return(t, Err("NotADirectory"))
            /\ UNCHANGED << conf, walk, out, handle, size, cursor >>
       ELSE IF Len(Components(req[t].path)) > ParentCap
       THEN /\ Abort(t, "capacity overflow")
            /\ UNCHANGED << conf, walk, out, handle, size, cursor >>
       ELSE /\ stack' = [stack EXCEPT ![t] =
                            << Frame(LookUpAnswer, Components(req[t].path)) >>]
            /\ Release(t)
            /\ Leave(t, "next")
            /\ UNCHANGED << conf, files, items, dir_entry, out, handle, size, result,
                            cursor, poisoned >>

\* next returns None to its caller, who calls it again as often as the
\* request says and then is done with the iterator.
NextReturnsNone(t) ==
    /\ nones' = [nones EXCEPT ![t] = @ + 1]
    /\ IF nones[t] < req[t].length
       THEN /\ Release(t)
            /\ Leave(t, "next")
            /\ UNCHANGED << result, poisoned >>
       ELSE Return(t, Ok)

\* ArchiveDirIterator::next, called until it returns None and then as often
\* again as the request says.  started is never set, so every call asks for
\* the entry count again.
next_GetDirEntryCount(t) ==
    /\ pc[t] = "next" /\ req[t].op \in {"iter", "iter_dir"}
    /\ CanRead
    /\ IF poisoned
       THEN /\ Return(t, Panic("poisoned"))
            /\ UNCHANGED << conf, walk, out, handle, size, cursor >>
       ELSE /\ readers' = readers \cup {t}
            /\ EnterShared(t, Call("GetDirEntryCount", << >>, FALSE, FALSE,
                                   Top(stack[t]).h, 0, 0), "GetDirEntryCount")
            /\ UNCHANGED << conf, walk, out, handle, size, result, cursor, writer, poisoned >>

next_GetDirEntryCount_ret(t) ==
    /\ pc[t] = "GetDirEntryCount" /\ req[t].op \in {"iter", "iter_dir"}
    /\ IF Throws("GetDirEntryCount")
       THEN /\ NextReturnsNone(t)
            /\ UNCHANGED << env, batch, host, walk, out, handle, size, cursor >>
       ELSE IF Top(stack[t]).index >= GetDirEntryCountAnswer(t)
       THEN /\ NextReturnsNone(t)
            /\ stack' = [stack EXCEPT ![t] =
                            SetTop(@, [Top(@) EXCEPT !.count = GetDirEntryCountAnswer(t)])]
            /\ UNCHANGED << env, batch, host, files, items, dir_entry, out, handle, size, cursor >>
       ELSE /\ stack' = [stack EXCEPT ![t] =
                            SetTop(@, [Top(@) EXCEPT !.count = GetDirEntryCountAnswer(t)])]
            /\ Release(t)
            /\ Leave(t, "entry")
            /\ UNCHANGED << conf, files, items, dir_entry, out, handle, size, result,
                            cursor, poisoned >>

next_GetDirEntry(t) ==
    /\ pc[t] = "entry" /\ req[t].op \in {"iter", "iter_dir"}
    /\ CanRead
    /\ IF poisoned
       THEN /\ Return(t, Panic("poisoned"))
            /\ UNCHANGED << conf, walk, out, handle, size, cursor >>
       ELSE /\ readers' = readers \cup {t}
            /\ EnterShared(t, Call("GetDirEntry", << >>, FALSE, FALSE,
                                   Top(stack[t]).h, Top(stack[t]).index, 0), "GetDirEntry")
            /\ UNCHANGED << conf, walk, out, handle, size, result, cursor, writer, poisoned >>

\* next_GetDirEntry_ret yielding the entry without moving on to the next index.
next_GetDirEntry_ret_stuck(t) ==
    /\ pc[t] = "GetDirEntry" /\ req[t].op \in {"iter", "iter_dir"}
    /\ IF Throws("GetDirEntry") \/ ~GetDirEntryAnswer(t).found
       THEN /\ NextReturnsNone(t)
            /\ UNCHANGED << env, batch, host, walk, out, handle, size, cursor >>
       ELSE /\ dir_entry' = [dir_entry EXCEPT ![t] = GetDirEntryAnswer(t).entry]
            /\ items' = [items EXCEPT ![t] =
                            Append(@, Item(GetDirEntryAnswer(t).entry, Top(stack[t]).parent))]
            /\ Release(t)
            /\ Leave(t, "next")
            /\ UNCHANGED << conf, stack, files, out, handle, size, result, cursor,
                            poisoned >>

next_GetDirEntry_ret(t) ==
    /\ pc[t] = "GetDirEntry" /\ req[t].op \in {"iter", "iter_dir"}
    /\ IF Throws("GetDirEntry") \/ ~GetDirEntryAnswer(t).found
       THEN /\ NextReturnsNone(t)
            /\ UNCHANGED << env, batch, host, walk, out, handle, size, cursor >>
       ELSE /\ dir_entry' = [dir_entry EXCEPT ![t] = GetDirEntryAnswer(t).entry]
            /\ items' = [items EXCEPT ![t] =
                            Append(@, Item(GetDirEntryAnswer(t).entry, Top(stack[t]).parent))]
            /\ stack' = [stack EXCEPT ![t] = SetTop(@, [Top(@) EXCEPT !.index = @ + 1])]
            /\ Release(t)
            /\ Leave(t, "next")
            /\ UNCHANGED << conf, files, out, handle, size, result, cursor, poisoned >>

\* -------------------------------------------------------- count_dir_entries
count_dir_entries_LookUp(t) ==
    /\ pc[t] = "start" /\ req[t].op = "count_dir_entries"
    /\ CanWrite
    /\ IF poisoned
       THEN /\ Return(t, Panic("poisoned"))
            /\ UNCHANGED << conf, walk, out, handle, size, cursor >>
       ELSE /\ writer' = t
            /\ Enter(t, Call("LookUp", req[t].path, FALSE, TRUE, 0, 0, 0), "LookUp")
            /\ UNCHANGED << conf, walk, out, handle, size, result, readers, poisoned >>

count_dir_entries_LookUp_ret(t) ==
    /\ pc[t] = "LookUp" /\ req[t].op = "count_dir_entries"
    /\ IF Throws("LookUp")
       THEN /\ Return(t, Err("Other"))
            /\ UNCHANGED << conf, walk, out, handle, size, cursor >>
       ELSE IF LookUpAnswer = ZARCHIVE_INVALID_NODE
       THEN /\ Return(t, Err("MissingFile"))
            /\ UNCHANGED << conf, walk, out, handle, size, cursor >>
       ELSE IF ~req[t].flag
       THEN /\ Return(t, Err("NotADirectory"))
            /\ UNCHANGED << conf, walk, out, handle, size, cursor >>
       ELSE /\ handle' = [handle EXCEPT ![t] = LookUpAnswer]
            /\ Leave(t, "resolved")
            /\ UNCHANGED << conf, walk, out, size, result, cursor, writer, readers, poisoned >>

count_dir_entries_GetDirEntryCount(t) ==
    /\ pc[t] = "resolved" /\ req[t].op = "count_dir_entries"
    /\ EnterShared(t, Call("GetDirEntryCount", << >>, FALSE, FALSE, handle[t], 0, 0),
                   "GetDirEntryCount")
    /\ UNCHANGED << conf, walk, out, handle, size, result, cursor, writer, readers, poisoned >>

count_dir_entries_GetDirEntryCount_ret(t) ==
    /\ pc[t] = "GetDirEntryCount" /\ req[t].op = "count_dir_entries"
    /\ IF Throws("GetDirEntryCount")
       THEN Return(t, Err("Other"))
       ELSE Return(t, OkNum(GetDirEntryCountAnswer(t)))
    /\ UNCHANGED << conf, walk, out, handle, size, cursor >>

\* ---------------------------------------------------------------- get_files
\* The for loop of process_dir_entry moves on: a directory whose entries are
\* all visited returns to its caller, whose loop moves to its next entry.
RECURSIVE Unwind(_)
Unwind(stk) ==
    IF stk = << >> THEN << >>
    ELSE IF Top(stk).index < Top(stk).count THEN stk
    ELSE IF Len(stk) = 1 THEN << >>
    ELSE Unwind(SetTop(Pop(stk), [Top(Pop(stk)) EXCEPT !.index = @ + 1]))

NextEntry(stk) == Unwind(SetTop(stk, [Top(stk) EXCEPT !.index = @ + 1]))

\* get_files goes on with the directories of stk, or returns its files when
\* none is left.
Continue(t, stk) ==
    /\ stack' = [stack EXCEPT ![t] = stk]
    /\ IF stk = << >>
       THEN Return(t, Ok)
       ELSE /\ Release(t)
            /\ Leave(t, "entry")
            /\ UNCHANGED << result, poisoned >>

\* get_files_LookUp under a read guard instead of a write guard.
get_files_LookUp_shared(t) ==
    /\ pc[t] = "start" /\ req[t].op = "get_files"
    /\ CanRead
    /\ IF poisoned
       THEN /\ Return(t, Panic("poisoned"))
            /\ UNCHANGED << conf, walk, out, handle, size, cursor >>
       ELSE /\ readers' = readers \cup {t}
            /\ Enter(t, Call("LookUp", << >>, FALSE, TRUE, 0, 0, 0), "LookUp")
            /\ UNCHANGED << conf, walk, out, handle, size, result, writer, poisoned >>

get_files_LookUp(t) ==
    /\ pc[t] = "start" /\ req[t].op = "get_files"
    /\ CanWrite
    /\ IF poisoned
       THEN /\ Return(t, Panic("poisoned"))
            /\ UNCHANGED << conf, walk, out, handle, size, cursor >>
       ELSE /\ writer' = t
            /\ Enter(t, Call("LookUp", << >>, FALSE, TRUE, 0, 0, 0), "LookUp")
            /\ UNCHANGED << conf, walk, out, handle, size, result, readers, poisoned >>

get_files_LookUp_ret(t) ==
    /\ pc[t] = "LookUp" /\ req[t].op = "get_files"
    /\ IF Throws("LookUp")
       THEN /\ Return(t, Err("Other"))
            /\ UNCHANGED << conf, walk, out, handle, size, cursor >>
       ELSE IF LookUpAnswer = ZARCHIVE_INVALID_NODE
       THEN /\ Return(t, Ok)
            /\ UNCHANGED << conf, walk, out, handle, size, cursor >>
       ELSE /\ stack' = [stack EXCEPT ![t] = << Frame(LookUpAnswer, << >>) >>]
            /\ Release(t)
            /\ Leave(t, "dir")
            /\ UNCHANGED << conf, files, items, dir_entry, out, handle, size, result,
                            cursor, poisoned >>

process_dir_entry_GetDirEntryCount(t) ==
    /\ pc[t] = "dir" /\ req[t].op = "get_files"
    /\ CanRead
    /\ IF poisoned
       THEN /\ Return(t, Panic("poisoned"))
            /\ UNCHANGED << conf, walk, out, handle, size, cursor >>
       ELSE /\ readers' = readers \cup {t}
            /\ EnterShared(t, Call("GetDirEntryCount", << >>, FALSE, FALSE,
                                   Top(stack[t]).h, 0, 0), "GetDirEntryCount")
            /\ UNCHANGED << conf, walk, out, handle, size, result, cursor, writer, poisoned >>

process_dir_entry_GetDirEntryCount_ret(t) ==
    /\ pc[t] = "GetDirEntryCount" /\ req[t].op = "get_files"
    /\ IF Throws("GetDirEntryCount")
       THEN /\ Return(t, Err("Other"))
            /\ UNCHANGED << conf, walk, out, handle, size, cursor >>
       ELSE /\ Continue(t, Unwind(SetTop(stack[t],
                    [Top(stack[t]) EXCEPT !.count = GetDirEntryCountAnswer(t)])))
            /\ UNCHANGED << conf, files, items, dir_entry, out, handle, size, cursor >>

process_dir_entry_GetDirEntry(t) ==
    /\ pc[t] = "entry" /\ req[t].op = "get_files"
    /\ CanRead
    /\ IF poisoned
       THEN /\ Return(t, Panic("poisoned"))
            /\ UNCHANGED << conf, walk, out, handle, size, cursor >>
       ELSE /\ readers' = readers \cup {t}
            /\ EnterShared(t, Call("GetDirEntry", << >>, FALSE, FALSE,
                                   Top(stack[t]).h, Top(stack[t]).index, 0), "GetDirEntry")
            /\ UNCHANGED << conf, walk, out, handle, size, result, cursor, writer, poisoned >>

\* process_dir_entry_GetDirEntry_ret with the read guard of GetDirEntry kept
\* through the body of the if, where LookUp asks for the write guard.
process_dir_entry_GetDirEntry_ret_held(t) ==
    /\ pc[t] = "GetDirEntry" /\ req[t].op = "get_files"
    /\ IF Throws("GetDirEntry")
       THEN /\ Return(t, Err("Other"))
            /\ UNCHANGED << conf, walk, out, handle, size, cursor >>
       ELSE IF ~GetDirEntryAnswer(t).found
       THEN /\ Continue(t, NextEntry(stack[t]))
            /\ UNCHANGED << conf, files, items, dir_entry, out, handle, size, cursor >>
       ELSE IF GetDirEntryAnswer(t).entry.isFile
       THEN /\ dir_entry' = [dir_entry EXCEPT ![t] = GetDirEntryAnswer(t).entry]
            /\ files' = [files EXCEPT ![t] =
                            Append(@, full_path(Top(stack[t]).parent,
                                                GetDirEntryAnswer(t).entry.name))]
            /\ Continue(t, NextEntry(stack[t]))
            /\ UNCHANGED << conf, items, out, handle, size, cursor >>
       ELSE IF GetDirEntryAnswer(t).entry.isDirectory
       THEN /\ dir_entry' = [dir_entry EXCEPT ![t] = GetDirEntryAnswer(t).entry]
            /\ Leave(t, "sub")
            /\ UNCHANGED << conf, stack, files, items, out, handle, size, result,
                            cursor, writer, readers, poisoned >>
       ELSE /\ dir_entry' = [dir_entry EXCEPT ![t] = GetDirEntryAnswer(t).entry]
            /\ Continue(t, NextEntry(stack[t]))
            /\ UNCHANGED << conf, files, items, out, handle, size, cursor >>

process_dir_entry_GetDirEntry_ret(t) ==
    /\ pc[t] = "GetDirEntry" /\ req[t].op = "get_files"
    /\ IF Throws("GetDirEntry")
       THEN /\ Return(t, Err("Other"))
            /\ UNCHANGED << conf, walk, out, handle, size, cursor >>
       ELSE IF ~GetDirEntryAnswer(t).found
       THEN /\ Continue(t, NextEntry(stack[t]))
            /\ UNCHANGED << conf, files, items, dir_entry, out, handle, size, cursor >>
       ELSE IF GetDirEntryAnswer(t).entry.isFile
       THEN /\ dir_entry' = [dir_entry EXCEPT ![t] = GetDirEntryAnswer(t).entry]
            /\ files' = [files EXCEPT ![t] =
                            Append(@, full_path(Top(stack[t]).parent,
                                                GetDirEntryAnswer(t).entry.name))]
            /\ Continue(t, NextEntry(stack[t]))
            /\ UNCHANGED << conf, items, out, handle, size, cursor >>
       ELSE IF GetDirEntryAnswer(t).entry.isDirectory
       THEN /\ dir_entry' = [dir_entry EXCEPT ![t] = GetDirEntryAnswer(t).entry]
            /\ Release(t)
            /\ Leave(t, "sub")
            /\ UNCHANGED << conf, stack, files, items, out, handle, size, result,
                            cursor, poisoned >>
       ELSE /\ dir_entry' = [dir_entry EXCEPT ![t] = GetDirEntryAnswer(t).entry]
            /\ Continue(t, NextEntry(stack[t]))
            /\ UNCHANGED << conf, files, items, out, handle, size, cursor >>

process_dir_entry_LookUp(t) ==
    /\ pc[t] = "sub" /\ req[t].op = "get_files"
    /\ CanWrite
    /\ IF poisoned
       THEN /\ Return(t, Panic("poisoned"))
            /\ UNCHANGED << conf, walk, out, handle, size, cursor >>
       ELSE /\ writer' = t
            /\ Enter(t, Call("LookUp", full_path(Top(stack[t]).parent, dir_entry[t].name),
                             FALSE, TRUE, 0, 0, 0), "subLookUp")
            /\ UNCHANGED << conf, walk, out, handle, size, result, readers, poisoned >>

process_dir_entry_LookUp_ret(t) ==
    /\ pc[t] = "subLookUp" /\ req[t].op = "get_files"
    /\ IF Throws("LookUp")
       THEN /\ Return(t, Err("Other"))
            /\ UNCHANGED << conf, walk, out, handle, size, cursor >>
       ELSE IF LookUpAnswer = ZARCHIVE_INVALID_NODE
       THEN /\ Continue(t, NextEntry(stack[t]))
            /\ UNCHANGED << conf, files, items, dir_entry, out, handle, size, cursor >>
       ELSE IF Len(stack[t]) >= MaxStack
       THEN /\ Return(t, Panic("stack overflow"))
            /\ UNCHANGED << conf, walk, out, handle, size, cursor >>
       ELSE /\ stack' = [stack EXCEPT ![t] =
                  Append(@, Frame(LookUpAnswer,
                                  full_path(Top(@).parent, dir_entry[t].name)))]
            /\ Release(t)
            /\ Leave(t, "dir")
            /\ UNCHANGED << conf, files, items, dir_entry, out, handle, size, result,
                            cursor, poisoned >>

\* ------------------------------------------------------------------ extract
\* extract returns r to its caller.
Finish(t, r) ==
    /\ result' = [result EXCEPT ![t] = r]
    /\ req' = [req EXCEPT ![t] = Request("extract", << >>, 0, 0, FALSE)]
    /\ Goto(t, "done")

\* The closure of try_for_each is called for file number i of the list: it
\* makes the parent directory of dest/file and calls extract_file.
Closure(t, i, written) ==
    IF fault = "create_dir_all"
    THEN /\ Finish(t, Err("IOError"))
         /\ batch' = [batch EXCEPT ![t] = [on |-> FALSE, next |-> i, written |-> written]]
         /\ UNCHANGED out
    ELSE /\ req' = [req EXCEPT ![t] = Request("extract_file", files[t][i], 0, 0, FALSE)]
         /\ batch' = [batch EXCEPT ![t] = [on |-> TRUE, next |-> i, written |-> written]]
         /\ out' = [out EXCEPT ![t] = NoFile]
         /\ Goto(t, "start")
         /\ UNCHANGED result

\* Written with every file put into dest itself under its own name, the
\* directories of its path dropped.
Written_flat(t) ==
    IF out[t].exists
    THEN Append(batch[t].written,
                [path |-> <<"dest", "/", req[t].path[Len(req[t].path)]>>,
                 bytes |-> out[t].bytes])
    ELSE batch[t].written

\* What extract has written once the extract_file call of t is over.
Written(t) ==
    IF out[t].exists
    THEN Append(batch[t].written,
                [path |-> <<"dest", "/">> \o req[t].path, bytes |-> out[t].bytes])
    ELSE batch[t].written

extract_get_files(t) ==
    /\ pc[t] = "start" /\ req[t].op = "extract"
    /\ IF req[t].flag
       THEN /\ Return(t, Err("InvalidDestination"))
            /\ UNCHANGED << conf, walk, out, handle, size, cursor >>
       ELSE /\ req' = [req EXCEPT ![t] = Request("get_files", << >>, 0, 0, FALSE)]
            /\ batch' = [batch EXCEPT ![t].on = TRUE]
            /\ UNCHANGED << tree, fault, nones, host, walk, out, pc, handle, size, result,
                            inCall, cursor, writer, readers, poisoned >>

\* get_files has returned to extract, which unwraps its result and calls the
\* closure for the first file.
extract_get_files_ret(t) ==
    /\ pc[t] = "returned" /\ req[t].op = "get_files" /\ batch[t].on
    /\ IF result[t].kind # "Ok"
       THEN /\ Finish(t, Panic("unwrap"))
            /\ batch' = [batch EXCEPT ![t].on = FALSE]
            /\ UNCHANGED out
       ELSE IF files[t] = << >>
       THEN /\ Finish(t, Ok)
            /\ batch' = [batch EXCEPT ![t].on = FALSE]
            /\ UNCHANGED out
       ELSE Closure(t, 1, << >>)
    /\ UNCHANGED << tree, fault, nones, host, walk, handle, size, inCall, cursor, writer,
                    readers, poisoned >>

\* extract_extract_file_ret going on with the next file whatever extract_file
\* returned.
extract_extract_file_ret_all(t) ==
    /\ pc[t] = "returned" /\ req[t].op = "extract_file" /\ batch[t].on
    /\ IF batch[t].next = Len(files[t])
       THEN /\ Finish(t, result[t])
            /\ batch' = [batch EXCEPT ![t].on = FALSE, ![t].written = Written(t)]
            /\ UNCHANGED out
       ELSE Closure(t, batch[t].next + 1, Written(t))
    /\ UNCHANGED << tree, fault, nones, host, walk, handle, size, inCall, cursor, writer,
                    readers, poisoned >>

\* extract_file has returned to the closure: try_for_each ends with its error,
\* or goes on with the next file, or ends with Ok after the last.
extract_extract_file_ret(t) ==
    /\ pc[t] = "returned" /\ req[t].op = "extract_file" /\ batch[t].on
    /\ IF result[t].kind = "Err" \/ batch[t].next = Len(files[t])
       THEN /\ Finish(t, result[t])
            /\ batch' = [batch EXCEPT ![t].on = FALSE, ![t].written = Written(t)]
            /\ UNCHANGED out
       ELSE Closure(t, batch[t].next + 1, Written(t))
    /\ UNCHANGED << tree, fault, nones, host, walk, handle, size, inCall, cursor, writer,
                    readers, poisoned >>

\* ---------------------------------------------------------------- walk_tree
\* The caller of tests::walk_tree: iter().unwrap() on the root, a for loop
\* over each iterator, full_path() printed for an entry that is a file and
\* print_dir, which is iter_dir(dir).unwrap() and the same loop, for any
\* other.  stack[t] holds the iterators of the loops the caller is inside,
\* the parent of each being the names of its directory's path; items[t] holds
\* the entries the iterators have yielded.

\* A caller who has listed the archive with get_files goes on to walk it.
tests_walk_tree(t) ==
    /\ pc[t] = "done" /\ req[t].op = "get_files" /\ ~batch[t].on
    /\ result[t] = Ok
    /\ req' = [req EXCEPT ![t] = Request("walk_tree", << >>, 0, 0, FALSE)]
    /\ result' = [result EXCEPT ![t] = Pending]
    /\ Goto(t, "start")
    /\ UNCHANGED << tree, fault, nones, batch, host, walk, out, handle, size, inCall,
                    cursor, writer, readers, poisoned >>

walk_tree_iter(t) ==
    /\ pc[t] = "start" /\ req[t].op = "walk_tree"
    /\ CanWrite
    /\ IF poisoned
       THEN /\ Return(t, Panic("poisoned"))
            /\ UNCHANGED << conf, walk, out, handle, size, cursor >>
       ELSE /\ writer' = t
            /\ Enter(t, Call("LookUp", << >>, FALSE, TRUE, 0, 0, 0), "LookUp")
            /\ UNCHANGED << conf, walk, out, handle, size, result, readers, poisoned >>

walk_tree_iter_ret(t) ==
    /\ pc[t] = "LookUp" /\ req[t].op = "walk_tree"
    /\ IF Throws("LookUp") \/ LookUpAnswer = ZARCHIVE_INVALID_NODE
       THEN /\ Abort(t, "unwrap")
            /\ UNCHANGED << conf, walk, out, handle, size, cursor >>
       ELSE /\ stack' = [stack EXCEPT ![t] = << Frame(LookUpAnswer, << >>) >>]
            /\ Release(t)
            /\ Leave(t, "next")
            /\ UNCHANGED << conf, files, items, dir_entry, out, handle, size, result,
                            cursor, poisoned >>

\* next returns None: the for loop over the innermost iterator ends, print_dir
\* returns to the loop that called it, and the walk is over when the loop
\* over the root ends.
LoopEnds(t) ==
    /\ stack' = [stack EXCEPT ![t] = Pop(@)]
    /\ IF Len(stack[t]) = 1
       THEN Return(t, Ok)
       ELSE /\ Release(t)
            /\ Leave(t, "next")
            /\ UNCHANGED << result, poisoned >>

walk_tree_next_GetDirEntryCount(t) ==
    /\ pc[t] = "next" /\ req[t].op = "walk_tree"
    /\ CanRead
    /\ IF poisoned
       THEN /\ Return(t, Panic("poisoned"))
            /\ UNCHANGED << conf, walk, out, handle, size, cursor >>
       ELSE /\ readers' = readers \cup {t}
            /\ EnterShared(t, Call("GetDirEntryCount", << >>, FALSE, FALSE,
                                   Top(stack[t]).h, 0, 0), "GetDirEntryCount")
            /\ UNCHANGED << conf, walk, out, handle, size, result, cursor, writer, poisoned >>

walk_tree_next_GetDirEntryCount_ret(t) ==
    /\ pc[t] = "GetDirEntryCount" /\ req[t].op = "walk_tree"
    /\ IF Throws("GetDirEntryCount") \/ Top(stack[t]).index >= GetDirEntryCountAnswer(t)
       THEN /\ LoopEnds(t)
            /\ UNCHANGED << conf, files, items, dir_entry, out, handle, size, cursor >>
       ELSE /\ stack' = [stack EXCEPT ![t] =
                            SetTop(@, [Top(@) EXCEPT !.count = GetDirEntryCountAnswer(t)])]
            /\ Release(t)
            /\ Leave(t, "entry")
            /\ UNCHANGED << conf, files, items, dir_entry, out, handle, size, result,
                            cursor, poisoned >>

walk_tree_next_GetDirEntry(t) ==
    /\ pc[t] = "entry" /\ req[t].op = "walk_tree"
    /\ CanRead
    /\ IF poisoned
       THEN /\ Return(t, Panic("poisoned"))
            /\ UNCHANGED << conf, walk, out, handle, size, cursor >>
       ELSE /\ readers' = readers \cup {t}
            /\ EnterShared(t, Call("GetDirEntry", << >>, FALSE, FALSE,
                                   Top(stack[t]).h, Top(stack[t]).index, 0), "GetDirEntry")
            /\ UNCHANGED << conf, walk, out, handle, size, result, cursor, writer, poisoned >>

\* next yields an entry: a file's full_path is printed and the loop goes on;
\* anything else is given to print_dir.
walk_tree_next_GetDirEntry_ret(t) ==
    /\ pc[t] = "GetDirEntry" /\ req[t].op = "walk_tree"
    /\ IF Throws("GetDirEntry") \/ ~GetDirEntryAnswer(t).found
       THEN /\ LoopEnds(t)
            /\ UNCHANGED << conf, files, items, dir_entry, out, handle, size, cursor >>
       ELSE /\ dir_entry' = [dir_entry EXCEPT ![t] = GetDirEntryAnswer(t).entry]
            /\ items' = [items EXCEPT ![t] =
                            Append(@, Item(GetDirEntryAnswer(t).entry, Top(stack[t]).parent))]
            /\ stack' = [stack EXCEPT ![t] = SetTop(@, [Top(@) EXCEPT !.index = @ + 1])]
            /\ Release(t)
            /\ Leave(t, IF GetDirEntryAnswer(t).entry.isFile THEN "next" ELSE "print_dir")
            /\ UNCHANGED << conf, files, out, handle, size, result, cursor, poisoned >>

\* print_dir calls iter_dir with the entry the loop is at, the last of items[t].
print_dir_iter_dir(t) ==
    /\ pc[t] = "print_dir" /\ req[t].op = "walk_tree"
    /\ CanWrite
    /\ IF poisoned
       THEN /\ Return(t, Panic("poisoned"))
            /\ UNCHANGED << conf, walk, out, handle, size, cursor >>
       ELSE /\ writer' = t
            /\ Enter(t, Call("LookUp",
                             DirEntry_full_path(Append(Top(items[t]).parent,
                                                       Top(items[t]).name)),
                             FALSE, TRUE, 0, 0, 0), "iter_dir")
            /\ UNCHANGED << conf, walk, out, handle, size, result, readers, poisoned >>

\* iter_dir returns to print_dir, which unwraps its result: the new
\* iterator's parent is the entry's parent and the entry's name, collected
\* into an ArrayVec that panics when pushed beyond its capacity.
print_dir_iter_dir_ret(t) ==
    /\ pc[t] = "iter_dir" /\ req[t].op = "walk_tree"
    /\ IF Throws("LookUp") \/ LookUpAnswer = ZARCHIVE_INVALID_NODE
          \/ ~Top(items[t]).isDirectory
       THEN /\ Abort(t, "unwrap")
            /\ UNCHANGED << conf, walk, out, handle, size, cursor >>
       ELSE IF Len(Top(items[t]).parent) + 1 > ParentCap
       THEN /\ Abort(t, "capacity overflow")
            /\ UNCHANGED << conf, walk, out, handle, size, cursor >>
       ELSE /\ stack' = [stack EXCEPT ![t] =
                  Append(@, Frame(LookUpAnswer,
                                  Append(Top(items[t]).parent, Top(items[t]).name)))]
            /\ Release(t)
            /\ Leave(t, "next")
            /\ UNCHANGED << conf, files, items, dir_entry, out, handle, size, result,
                            cursor, poisoned >>

\* --------------------------------------------------------------------- pack
PackCheck(h) ==
    [host |-> h, r |-> IF h.inUtf8 /\ h.outUtf8 THEN Pending ELSE Err("InvalidFilePath")]

\* pack up to its call of the engine: the host as pack leaves it, and what
\* pack returns if it returns before the call.
Prepare(h) ==
    IF h.input # "dir"
    THEN [host |-> h, r |-> Err("IOError")]
    ELSE IF h.output # "absent"
    THEN (IF h.output = "dir" \/ fault = "remove_file"
          THEN [host |-> h, r |-> Err("IOError")]
          ELSE PackCheck([h EXCEPT !.output = "absent"]))
    ELSE IF h.parent = "none"
    THEN [host |-> h, r |-> Panic("unwrap")]
    ELSE IF h.parent = "absent"
    THEN (IF fault = "create_dir_all"
          THEN [host |-> h, r |-> Err("IOError")]
          ELSE PackCheck([h EXCEPT !.parent = "dir"]))
    ELSE PackCheck(h)

pack_Pack(t) ==
    /\ pc[t] = "start" /\ req[t].op = "pack"
    /\ host' = Prepare(host).host
    /\ IF Prepare(host).r = Pending
       THEN /\ EnterShared(t, Call("Pack", << >>, FALSE, FALSE, 0, 0, 0), "Pack")
            /\ UNCHANGED << result, writer, readers, poisoned >>
       ELSE Return(t, Prepare(host).r)
    /\ UNCHANGED << env, nones, batch, walk, out, handle, size, cursor >>

\* The engine's Pack returns: it has written the container unless it failed.
pack_Pack_ret(t) ==
    /\ pc[t] = "Pack" /\ req[t].op = "pack"
    /\ IF fault = "Pack" \/ host.parent # "dir"
       THEN /\ Return(t, Err("Other"))
            /\ UNCHANGED host
       ELSE /\ Return(t, Ok)
            /\ host' = [host EXCEPT !.output = "file", !.archive = EngPack(host.disk)]
    /\ UNCHANGED << env, nones, batch, walk, out, handle, size, cursor >>

\* The directory extract has filled, as pack finds it.
DiskOf(written) ==
    { DiskFile(Components(SubSeq(written[k].path, 3, Len(written[k].path))),
               written[k].bytes) : k \in 1..Len(written) }

\* tests::pack: the archive has been extracted to a fresh directory, which is
\* now packed into the file a NamedTempFile has made.
tests_pack(t) ==
    /\ pc[t] = "done" /\ req[t].op = "extract" /\ result[t] = Ok
    /\ host' = [Host("dir", "file", "dir", TRUE, TRUE, DiskOf(batch[t].written))
                   EXCEPT !.original = files[t]]
    /\ req' = [req EXCEPT ![t] = Request("pack", << >>, 0, 0, FALSE)]
    /\ result' = [result EXCEPT ![t] = Pending]
    /\ Goto(t, "start")
    /\ UNCHANGED << tree, fault, nones, batch, walk, out, handle, size, inCall, cursor,
                    writer, readers, poisoned >>

\* ZArchiveReader::open of the container pack has written, followed by
\* get_files on it.
open(t) ==
    /\ pc[t] = "done" /\ req[t].op = "pack" /\ result[t] = Ok
    /\ tree' = host.archive
    /\ host' = [host EXCEPT !.opened = TRUE]
    /\ req' = [req EXCEPT ![t] = Request("get_files", << >>, 0, 0, FALSE)]
    /\ result' = [result EXCEPT ![t] = Pending]
    /\ files' = [files EXCEPT ![t] = << >>]
    /\ stack' = [stack EXCEPT ![t] = << >>]
    /\ Goto(t, "start")
    /\ UNCHANGED << fault, nones, batch, items, dir_entry, out, handle, size, inCall,
                    cursor, writer, readers, poisoned >>

\* ------------------------------------------- lib.rs: the RefCell reader
\* self.0.borrow_mut() followed by the engine call c.  writer is the thread
\* the RefCell's borrow flag stands for.  The flag is no atomic: when another
\* thread holds the borrow, the unsynchronised test of the flag either sees
\* it and panics or misses it, and then both threads are in the engine.
borrow_mut(t, c, label) ==
    IF writer # 0
    THEN \E seen \in BOOLEAN :
            IF seen
            THEN /\ Return(t, Panic("already borrowed"))
                 /\ UNCHANGED cursor
            ELSE /\ writer' = t
                 /\ Enter(t, c, label)
                 /\ UNCHANGED << result, readers, poisoned >>
    ELSE /\ writer' = t
         /\ Enter(t, c, label)
         /\ UNCHANGED << result, readers, poisoned >>

lib_read_from_file_LookUp(t) ==
    /\ pc[t] = "start" /\ req[t].op = LibOp
    /\ IF ~IsUtf8(req[t].path)
       THEN Return(t, None) /\ UNCHANGED cursor
       ELSE borrow_mut(t, Call("LookUp", req[t].path, TRUE, FALSE, 0, 0, 0), "LookUp")
    /\ UNCHANGED << conf, walk, out, handle, size >>

\* The engine call returns and the borrow, a temporary, is dropped.
lib_read_from_file_LookUp_ret(t) ==
    /\ pc[t] = "LookUp" /\ req[t].op = LibOp
    /\ IF Throws("LookUp") \/ LookUpAnswer = ZARCHIVE_INVALID_NODE
       THEN /\ Return(t, None)
            /\ UNCHANGED << conf, walk, out, handle, size, cursor >>
       ELSE /\ handle' = [handle EXCEPT ![t] = LookUpAnswer]
            /\ Release(t)
            /\ Leave(t, "resolved")
            /\ UNCHANGED << conf, walk, out, size, result, cursor, poisoned >>

lib_read_from_file_GetFileSize(t) ==
    /\ pc[t] = "resolved" /\ req[t].op = LibOp
    /\ borrow_mut(t, Call("GetFileSize", << >>, FALSE, FALSE, handle[t], 0, 0),
                  "GetFileSize")
    /\ UNCHANGED << conf, walk, out, handle, size >>

lib_read_from_file_GetFileSize_ret(t) ==
    /\ pc[t] = "GetFileSize" /\ req[t].op = LibOp
    /\ IF Throws("GetFileSize") \/ req[t].length > GetFileSizeAnswer
       THEN /\ Return(t, None)
            /\ UNCHANGED << conf, walk, out, handle, size, cursor >>
       ELSE /\ size' = [size EXCEPT ![t] = GetFileSizeAnswer]
            /\ Release(t)
            /\ Leave(t, "sized")
            /\ UNCHANGED << conf, walk, out, handle, result, cursor, poisoned >>

lib_read_from_file_ReadFromFile(t) ==
    /\ pc[t] = "sized" /\ req[t].op = LibOp
    /\ borrow_mut(t, Call("ReadFromFile", << >>, FALSE, FALSE, handle[t],
                          req[t].offset, req[t].length), "ReadFromFile")
    /\ UNCHANGED << conf, walk, out, handle, size >>

lib_read_from_file_ReadFromFile_ret(t) ==
    /\ pc[t] = "ReadFromFile" /\ req[t].op = LibOp
    /\ IF Throws("ReadFromFile")
       THEN Return(t, Panic("unwrap"))
       ELSE IF Len(ReadFromFileAnswer) # req[t].length
       THEN Return(t, Panic("unexpected number of bytes"))
       ELSE Return(t, Some(ReadFromFileAnswer))
    /\ UNCHANGED << conf, walk, out, handle, size, cursor >>

\* --------------------------------------------------------- the whole system
\* One step of a public operation of the reader by thread t.
ReaderStep(t) ==
    \/ read_from_file_LookUp(t)
    \/ read_from_file_LookUp_ret(t)
    \/ read_from_file_GetFileSize(t)
    \/ read_from_file_GetFileSize_ret(t)
    \/ read_from_file_ReadFromFile(t)
    \/ read_from_file_ReadFromFile_ret(t)
    \/ read_file_LookUp(t)
    \/ read_file_LookUp_ret(t)
    \/ read_file_GetFileSize(t)
    \/ read_file_GetFileSize_ret(t)
    \/ read_file_ReadFromFile(t)
    \/ read_file_ReadFromFile_ret(t)
    \/ file_size_LookUp(t)
    \/ file_size_LookUp_ret(t)
    \/ file_size_GetFileSize(t)
    \/ file_size_GetFileSize_ret(t)
    \/ extract_file_LookUp(t)
    \/ extract_file_LookUp_ret(t)
    \/ extract_file_IsFile(t)
    \/ extract_file_IsFile_ret(t)
    \/ extract_file_GetFileSize(t)
    \/ extract_file_GetFileSize_ret(t)
    \/ extract_file_ReadFromFile(t)
    \/ extract_file_ReadFromFile_ret(t)
    \/ iter_LookUp(t)
    \/ iter_LookUp_ret(t)
    \/ iter_dir_LookUp(t)
    \/ iter_dir_LookUp_ret(t)
    \/ next_GetDirEntryCount(t)
    \/ next_GetDirEntryCount_ret(t)
    \/ next_GetDirEntry(t)
    \/ next_GetDirEntry_ret(t)
    \/ count_dir_entries_LookUp(t)
    \/ count_dir_entries_LookUp_ret(t)
    \/ count_dir_entries_GetDirEntryCount(t)
    \/ count_dir_entries_GetDirEntryCount_ret(t)
    \/ get_files_LookUp(t)
    \/ get_files_LookUp_ret(t)
    \/ process_dir_entry_GetDirEntryCount(t)
    \/ process_dir_entry_GetDirEntryCount_ret(t)
    \/ process_dir_entry_GetDirEntry(t)
    \/ process_dir_entry_GetDirEntry_ret(t)
    \/ process_dir_entry_LookUp(t)
    \/ process_dir_entry_LookUp_ret(t)

\* One step of thread t.
Step(t) ==
    \/ ReaderStep(t)
    \/ extract_get_files(t)
    \/ extract_get_files_ret(t)
    \/ extract_extract_file_ret(t)
    \/ pack_Pack(t)
    \/ pack_Pack_ret(t)
    \/ tests_pack(t)
    \/ open(t)
    \/ tests_walk_tree(t)
    \/ walk_tree_iter(t)
    \/ walk_tree_iter_ret(t)
    \/ walk_tree_next_GetDirEntryCount(t)
    \/ walk_tree_next_GetDirEntryCount_ret(t)
    \/ walk_tree_next_GetDirEntry(t)
    \/ walk_tree_next_GetDirEntry_ret(t)
    \/ print_dir_iter_dir(t)
    \/ print_dir_iter_dir_ret(t)

Next == \E t \in Threads : Step(t)

Spec == Init /\ [][Next]_vars

\* Threads that keep running: a thread that can take a step takes one, an
\* engine call it is in returns, and the lock it waits for is granted once it
\* stays free.
FairNext == \E t \in Threads : ReaderStep(t)
FairSpec == FairInit /\ [][FairNext]_vars /\ \A t \in Threads : WF_vars(ReaderStep(t))

\* The RefCell reader of lib.rs, shared by NThreads threads.
LibNext ==
    \E t \in Threads :
        \/ lib_read_from_file_LookUp(t)
        \/ lib_read_from_file_LookUp_ret(t)
        \/ lib_read_from_file_GetFileSize(t)
        \/ lib_read_from_file_GetFileSize_ret(t)
        \/ lib_read_from_file_ReadFromFile(t)
        \/ lib_read_from_file_ReadFromFile_ret(t)

LibSpec == LibInit /\ [][LibNext]_vars

\* =================================================================== claims
Done(t) == pc[t] = "done"
Sound == fault = "none"

\* What the container holds at a path.
FileAt(p) == EngLookUp(tree, p, TRUE, FALSE)
DirAt(p) == EngLookUp(tree, p, FALSE, TRUE)
IsFilePath(p) == FileAt(p) # ZARCHIVE_INVALID_NODE
IsDirPath(p) == DirAt(p) # ZARCHIVE_INVALID_NODE
DataAt(p) == tree[FileAt(p)].data
Slice(bytes, offset, length) == SubSeq(bytes, offset + 1, offset + length)

\* The operation of t ended on the poisoned lock another thread's panic left.
PoisonedOut(t) == result[t] = Panic("poisoned")

ContentOps == {"read_file", "read_from_file", "file_size", "extract_file"}
MutatingCalls == {"LookUp", "GetFileSize", "ReadFromFile"}
SharedCalls == {"GetDirEntryCount", "GetDirEntry", "IsFile"}

\* C1: read_from_file of a range that ends past the end of the file
\* (offset + length > size) returns the failure value None, whatever the
\* offset and the length are.
C1_RangeFailure ==
    \A t \in Threads :
        ( /\ Done(t) /\ req[t].op = "read_from_file" /\ Sound
          /\ IsFilePath(req[t].path)
          /\ req[t].offset + req[t].length > Len(DataAt(req[t].path))
          /\ ~PoisonedOut(t) )
        => result[t] = None

\* C2: when every thread reads a range of a file of its own from the shared
\* archive, no call panics, the calls never block each other for good, and
\* each returns the bytes of the file it named.
C2Case ==
    /\ Sound
    /\ \A t \in Threads :
          /\ pc[t] # "off"
          /\ req[t].op = "read_from_file"
          /\ IsFilePath(req[t].path)
          /\ req[t].offset + req[t].length <= Len(DataAt(req[t].path))
    /\ \A t, u \in Threads : t # u => req[t].path # req[u].path

C2_NoCrossTalk ==
    C2Case =>
        /\ \A t \in Threads :
              /\ result[t].kind # "Panic"
              /\ Done(t) => result[t] = Some(Slice(DataAt(req[t].path),
                                                   req[t].offset, req[t].length))
        /\ (\E t \in Threads : ~Done(t))
              => \E t \in Threads : ~Done(t) /\ ~(pc[t] = "start" /\ ~CanWrite)

C2_Witness ==
    /\ C2Case
    /\ \A t \in Threads : Done(t) /\ result[t].kind = "Some" /\ result[t].val # << >>

C4_Exclusion ==
    \A t \in Threads :
        /\ inCall[t].fn \in MutatingCalls
           => (writer = t /\ \A u \in Threads \ {t} : inCall[u].fn = "none")
        /\ inCall[t].fn \in SharedCalls => (writer = t \/ (writer = 0 /\ t \in readers))

C4_Witness ==
    \E t, u \in Threads :
        /\ t # u
        /\ inCall[t].fn \in MutatingCalls
        /\ req[u].op \in {"get_files", "iter"} /\ pc[u] \in {"dir", "entry", "next"}

\* C5: on a container whose root directory does not resolve, iter and
\* get_files both return the not-found error.
RootMissing == DirAt(<< >>) = ZARCHIVE_INVALID_NODE

C5_MissingRoot ==
    \A t \in Threads :
        (Done(t) /\ req[t].op \in {"iter", "get_files"} /\ Sound /\ RootMissing)
        => result[t] = Err("MissingFile")

\* C6: when a read_file, read_from_file or extract_file call leaves the
\* engine's ReadFromFile, a byte count other than the length asked for makes
\* the operation panic and leaves the destination file as it was; a buffer
\* returned, and a file content written, has the length asked for.
C6Step ==
    \A t \in Threads :
        (pc[t] = "ReadFromFile" /\ pc'[t] = "done")
        => /\ (Throws("ReadFromFile") \/ Len(ReadFromFileAnswer) # inCall[t].length)
                => (result'[t].kind = "Panic" /\ out'[t] = out[t])
           /\ result'[t].kind = "Some" => Len(result'[t].val) = inCall[t].length
           /\ result'[t].kind = "Ok" => Len(out'[t].bytes) = inCall[t].length

C6_ShortReadPanics == [][C6Step]_vars

C6_Witness ==
    \E t \in Threads :
        /\ Done(t) /\ fault = "short" /\ req[t].op = "extract_file"
        /\ result[t] = Panic("unexpected number of bytes")

\* C7: two failures of the same read or extract operation that have
\* different causes (no such entry; an entry of the wrong kind) are different
\* values.
Cause(t) ==
    IF ~IsUtf8(req[t].path) THEN "invalid path"
    ELSE IF ~Sound THEN "engine"
    ELSE IF IsDirPath(req[t].path) THEN "wrong kind"
    ELSE IF ~IsFilePath(req[t].path) THEN "missing"
    ELSE "none"

C7_CausesToldApart ==
    \A t, u \in Threads :
        ( /\ Done(t) /\ Done(u)
          /\ req[t].op \in ContentOps /\ req[u].op = req[t].op
          /\ Cause(t) = "missing" /\ Cause(u) = "wrong kind" )
        => result[t] # result[u]

\* C8: a read_file, read_from_file, file_size or extract_file of a path that
\* is a directory returns None or MissingFile, and calls neither GetFileSize
\* nor ReadFromFile on the directory's node.
C8_DirectoryIsNotFound ==
    \A t \in Threads :
        (req[t].op \in ContentOps /\ Sound /\ IsDirPath(req[t].path) /\ pc[t] # "off")
        => /\ (Done(t) /\ ~PoisonedOut(t)) => result[t] \in {None, Err("MissingFile")}
           /\ inCall[t].fn \in {"GetFileSize", "ReadFromFile"}
                => inCall[t].h # DirAt(req[t].path)

\* C9: the invalid sentinel is never the handle of an engine call.
C9_SentinelNeverPassed ==
    \A t \in Threads :
        inCall[t].fn \in {"GetFileSize", "ReadFromFile", "GetDirEntryCount",
                          "GetDirEntry", "IsFile"}
        => inCall[t].h # ZARCHIVE_INVALID_NODE

\* C10: read_from_file of a range inside a file succeeds with the bytes
\* [offset, offset + length) of the file, read_file with all of its bytes, and
\* so the first is that range of the second.
C10_RangeOfWhole ==
    \A u \in Threads :
        ( /\ Done(u) /\ Sound /\ ~PoisonedOut(u)
          /\ IsFilePath(req[u].path) )
        => /\ ( /\ req[u].op = "read_from_file"
                /\ req[u].offset + req[u].length <= Len(DataAt(req[u].path)) )
              => /\ result[u] = Some(Slice(DataAt(req[u].path),
                                           req[u].offset, req[u].length))
                 /\ \A t \in Threads :
                       ( /\ Done(t) /\ req[t].op = "read_file"
                         /\ req[t].path = req[u].path /\ ~PoisonedOut(t) )
                       => result[u].val = Slice(result[t].val,
                                                req[u].offset, req[u].length)
           /\ req[u].op = "read_file" => result[u] = Some(DataAt(req[u].path))

C10_Witness ==
    \E t, u \in Threads :
        /\ Done(t) /\ req[t].op = "read_file" /\ result[t].kind = "Some"
        /\ Done(u) /\ req[u].op = "read_from_file" /\ req[u].path = req[t].path
        /\ req[u].offset = 1 /\ req[u].length = 2
        /\ result[u].kind = "Some" /\ Len(result[u].val) = 2

\* C18: iter_dir and count_dir_entries given the entry of a file fail with
\* NotADirectory, not with MissingFile.
C18_FileIsNotADirectory ==
    \A t \in Threads :
        ( /\ Done(t) /\ req[t].op \in {"iter_dir", "count_dir_entries"}
          /\ Sound /\ ~PoisonedOut(t)
          /\ IsFilePath(req[t].path) /\ ~req[t].flag )
        => result[t] = Err("NotADirectory")

\* C20: in read_file, read_from_file and extract_file no other thread is
\* inside an engine call from the return of the LookUp that resolves the
\* handle to the GetFileSize and ReadFromFile that use it.
C20_OneCriticalSection ==
    \A t \in Threads :
        ( /\ req[t].op \in {"read_file", "read_from_file", "extract_file"}
          /\ pc[t] \in {"resolved", "IsFile", "checked", "GetFileSize", "sized",
                        "ReadFromFile"} )
        => \A u \in Threads \ {t} : inCall[u].fn = "none"

\* A step taken while thread t is in the critical section of its handle: no
\* other thread enters or leaves an engine call, and the engine's traversal
\* state moves only by a call of t.
C20Step ==
    \A t \in Threads :
        ( \/ /\ req[t].op \in {"read_file", "read_from_file"}
             /\ pc[t] \in {"LookUp", "resolved", "GetFileSize", "sized", "ReadFromFile"}
          \/ /\ req[t].op = "extract_file"
             /\ pc[t] \in {"GetFileSize", "sized", "ReadFromFile"} )
        => /\ \A u \in Threads \ {t} : inCall'[u] = inCall[u]
           /\ cursor' # cursor => inCall'[t].fn \in MutatingCalls

\* C20, amended: read_file and read_from_file resolve and consume the handle
\* in one exclusive critical section, in which no step of another thread
\* enters or leaves an engine call; extract_file is in such a section only
\* from its GetFileSize on, its LookUp and its IsFile being made under guards
\* of their own.
C20_HandleSection == [][C20Step]_vars

C20_Witness ==
    \E t, u \in Threads :
        /\ req[t].op = "read_file" /\ pc[t] = "sized" /\ writer = t
        /\ req[u].op = "extract_file" /\ pc[u] = "resolved"

\* A container whose every entry is a node of its own is a finite tree.
Acyclic == \A i \in 1..Len(tree) : tree[i].link = 0

\* The files below directory h, depth first, the entries of every directory
\* in index order; kids are the entries of h not yet listed.
RECURSIVE ListingFrom(_, _)
ListingFrom(tr, kids) ==
    IF kids = << >> THEN << >>
    ELSE LET c == Head(kids)
         IN  (IF tr[c].isFile
              THEN << DirEntry_full_path(PathOf(tr, c)) >>
              ELSE ListingFrom(tr, Children(tr, c)))
             \o ListingFrom(tr, Tail(kids))

Listing(tr) == IF tr = << >> THEN << >> ELSE ListingFrom(tr, Children(tr, 1))

IsPrefix(s, w) == Len(s) <= Len(w) /\ s = SubSeq(w, 1, Len(s))

\* C12: on a finite tree get_files returns the full path of every file once,
\* depth first and in index order inside every directory, a full path being
\* the names from the root joined by "/" with nothing before the first; the
\* list it builds is at every moment the beginning of that listing.
C12_DepthFirstListing ==
    \A t \in Threads :
        (req[t].op = "get_files" /\ Sound /\ Acyclic /\ ~PoisonedOut(t))
        => /\ IsPrefix(files[t], Listing(tree))
           /\ Done(t) => (result[t] = Ok /\ files[t] = Listing(tree))

C12_Witness ==
    \E t \in Threads :
        /\ Done(t) /\ req[t].op = "get_files" /\ tree = DeepTree
        /\ files[t] = << <<"d", "/", "d", "/", "a">>, <<"d", "/", "b">>, <<"a">>, <<"f">> >>

\* C19: get_files ends on every structure the engine reports: with its list
\* on a finite tree, with an error on a structure in which a directory is
\* reachable from itself.
C19_TerminatesSafely ==
    \A t \in Threads :
        (Done(t) /\ req[t].op = "get_files" /\ Sound /\ ~PoisonedOut(t))
        => IF Acyclic THEN result[t] = Ok ELSE result[t].kind = "Err"

\* The iterator of thread t: the directory it is over and where it is in it.
Iterating(t) ==
    /\ req[t].op \in {"iter", "iter_dir"} /\ Sound /\ ~PoisonedOut(t)
    /\ stack[t] # << >>

C17State ==
    \A t \in Threads :
        Iterating(t) =>
            LET it == Top(stack[t])
                kids == Children(tree, it.h)
            IN  /\ it.index <= Len(kids)
                /\ Len(items[t]) = it.index
                /\ \A k \in 1..Len(items[t]) :
                      /\ items[t][k].name = tree[kids[k]].name
                      /\ items[t][k].isFile = tree[kids[k]].isFile
                      /\ items[t][k].parent = PathOf(tree, it.h)
                /\ nones[t] > 0 => it.index = Len(kids)
                /\ Done(t) => nones[t] = req[t].length + 1

C17Step ==
    \A t \in Threads :
        (Iterating(t) /\ stack'[t] # << >>)
        => /\ Top(stack'[t]).index >= Top(stack[t]).index
           /\ nones'[t] >= nones[t]
           /\ nones[t] > 0 => items'[t] = items[t]

\* C17: an iterator over a directory of n entries yields the entries at the
\* indices 0..n-1 in order, each once, and after that every call of next
\* returns the end of the iteration; its index never decreases and never
\* exceeds the entry count.
C17_IteratorOrder == [](C17State) /\ [][C17Step]_vars

C17_Witness ==
    \E t \in Threads :
        /\ Done(t) /\ req[t].op = "iter" /\ tree = DeepTree
        /\ Len(items[t]) = 4 /\ nones[t] = MaxAgain + 1

\* Where extract puts file number k of its list.
DestOf(t, k) == <<"dest", "/">> \o files[t][k]

C13State ==
    \A t \in Threads :
        (Done(t) /\ req[t].op = "extract" /\ batch[t].next > 0)
        => LET b == batch[t]
           IN  /\ result[t].kind \in {"Ok", "Err"}
               /\ b.next <= Len(files[t])
               /\ \A k \in 1..(b.next - 1) :
                     k <= Len(b.written) /\ b.written[k].path = DestOf(t, k)
               /\ \A w \in 1..Len(b.written), k \in (b.next + 1)..Len(files[t]) :
                     b.written[w].path # DestOf(t, k)
               /\ result[t] = Ok
                    => (b.next = Len(files[t]) /\ Len(b.written) = Len(files[t]))

C13Step ==
    \A t \in Threads :
        ( /\ batch[t].on /\ pc[t] = "returned" /\ req[t].op = "extract_file"
          /\ result[t].kind = "Err" /\ pc'[t] # pc[t] )
        => /\ pc'[t] = "done" /\ result'[t] = result[t]
           /\ req'[t].op = "extract"

\* C13: extract extracts the files of the list one after another and stops at
\* the first whose extraction fails: every file before it has been written,
\* the failure of that file is what extract returns, and no file after it is
\* extracted.
C13_FailFast == [](C13State) /\ [][C13Step]_vars

C13_Witness ==
    \E t \in Threads :
        /\ Done(t) /\ req[t].op = "extract" /\ tree = BrokenTree
        /\ Len(files[t]) = 4 /\ batch[t].next = 3
        /\ result[t] = Err("MissingFile") /\ Len(batch[t].written) = 2

\* C14: the engine's Pack is called only while the source is a directory,
\* nothing is at the output path and the output's parent is a directory; when
\* the source is missing or no directory pack returns an error and never
\* calls the engine.
C14_PackPrecondition ==
    \A t \in Threads :
        /\ inCall[t].fn = "Pack"
           => (host.input = "dir" /\ host.output = "absent" /\ host.parent = "dir")
        /\ (req[t].op = "pack" /\ host.input # "dir")
           => (inCall[t].fn # "Pack" /\ (Done(t) => result[t] = Err("IOError")))

Range(s) == { s[i] : i \in 1..Len(s) }

\* The relative paths of the files of the directory pack was given.
PackedFiles == { DirEntry_full_path(f.path) : f \in { g \in host.disk : g.isFile } }

C16_SharedWithoutLock ==
    \A t \in Threads :
        req[t].op = LibOp
        => /\ \A u \in Threads \ {t} :
                 req[u].op = LibOp => (inCall[t].fn = "none" \/ inCall[u].fn = "none")
           /\ Done(t) => result[t] # Panic("already borrowed")

\* A read_from_file of a range of a file that ends past the end of the file.
PastEnd(r) ==
    /\ r.op = "read_from_file" /\ IsFilePath(r.path)
    /\ r.offset + r.length > Len(DataAt(r.path))

\* C15: every operation a thread has started on the shared archive comes to
\* its end, whatever the other threads do: no thread waits for the lock for
\* ever.  It ends by returning; only where some thread reads past the end of
\* a file do operations end in a panic instead.
C15_EveryOperationEnds ==
    /\ \A t \in Threads : <>Done(t)
    /\ [](\A t \in Threads :
            (Done(t) /\ result[t].kind = "Panic") => \E u \in Threads : PastEnd(req[u]))

C15_Witness ==
    \E t, u \in Threads :
        /\ t # u /\ Done(t) /\ Done(u)
        /\ req[t].op = "get_files" /\ result[t] = Ok
        /\ req[u].op = "extract_file" /\ result[u] = Ok

\* The places of an operation where the next step asks for the lock:
\* RwLock::write() or RwLock::read() is the next thing the thread does.
AsksForLock(t) ==
    \/ pc[t] = "start" /\ req[t].op \in {"read_from_file", "read_file", "file_size",
                                         "extract_file", "iter", "iter_dir",
                                         "count_dir_entries", "get_files"}
    \/ pc[t] \in {"resolved", "checked"} /\ req[t].op = "extract_file"
    \/ pc[t] \in {"next", "entry"} /\ req[t].op \in {"iter", "iter_dir"}
    \/ pc[t] \in {"dir", "entry", "sub"} /\ req[t].op = "get_files"
    \/ pc[t] \in {"start", "next", "entry", "print_dir"} /\ req[t].op = "walk_tree"

HoldsGuard(t) == writer = t \/ t \in readers

\* C21: no thread asks for the archive lock while it holds a guard of it: at
\* every place where an operation is about to call write() or read() (the
\* LookUp, IsFile and GetFileSize of extract_file, every call of get_files'
\* recursion, every call of the iterator's next) the thread holds no guard,
\* so it never holds a read guard and the write guard together.
C21_NoGuardHeldWhenAsking ==
    \A t \in Threads :
        /\ AsksForLock(t) => ~HoldsGuard(t)
        /\ ~(writer = t /\ t \in readers)

\* extract_file has taken and dropped the write guard of LookUp and the read
\* guard of IsFile and is about to take the write guard of its else branch,
\* while another thread holds a guard.
C21_Witness ==
    \E t \in Threads :
        /\ req[t].op = "extract_file" /\ pc[t] = "checked"
        /\ ~HoldsGuard(t)
        /\ \E u \in Threads \ {t} : HoldsGuard(u)

\* What the walk has printed: the full_path of every file entry its iterators
\* have yielded, in the order they yielded them.
FileItems(t) == SelectSeq(items[t], LAMBDA e : e.isFile)
Printed(t) ==
    [i \in 1..Len(FileItems(t)) |->
        DirEntry_full_path(Append(FileItems(t)[i].parent, FileItems(t)[i].name))]

\* Thread t's walk of the archive is over, in a run where the archive has a
\* root directory and no other thread's panic has poisoned the lock.
Walked(t) == Done(t) /\ req[t].op = "walk_tree" /\ tree # EmptyTree /\ ~poisoned

\* C22: for every archive tree, of any depth, the lazy walk (iter on the
\* root, iter_dir on every directory entry, full_path of every file entry)
\* comes to its end without failure and has printed exactly the sequence of
\* paths that get_files returned for the same archive.
C22_LazyWalkIsGetFiles ==
    \A t \in Threads :
        Walked(t) => (result[t] = Ok /\ Printed(t) = files[t])

====
